---- MODULE Spec2Model ----
(***************************************************************************)
(* Model of the lexical indexing pipeline of merlot-keywords:              *)
(*   bag_of_words.py  cleanup_term, the three parse_*_text handlers,      *)
(*                    parse_document, save_bow, process_doc and           *)
(*                    build_bags_of_words;                                *)
(*   tf_idf.py        build_corpus_vocabulary, load_stopwords,            *)
(*                    compute_tf_idf, generate_keywords and               *)
(*                    get_keywords_for_row;                               *)
(*   doc_parser.py   DOCParser.extract_text with the Word 95 and Word 97  *)
(*                    decoders.                                           *)
(*                                                                         *)
(* A Python str is a sequence of one-character strings, a Python dict is  *)
(* a sequence of <<key, value>> pairs in insertion order, an Optional is   *)
(* the empty tuple or <<value>>.  Seven specifications share the module:   *)
(*   SpecParse   the parse handlers as pure functions;                     *)
(*   Spec        the concurrent per-document builder;                      *)
(*   SpecCorpus  aggregation, stopwords and keywords;                      *)
(*   SpecLoads   the load tasks of the aggregation, one by one;            *)
(*   SpecName    the construction of a FilenameTuple;                      *)
(*   SpecReport  the keyword tasks and the report assembled from them;     *)
(*   SpecDoc     the legacy Word decoder on the bytes of its streams.      *)
(***************************************************************************)
EXTENDS Integers, Sequences, FiniteSets, TLC

VARIABLES
    \* ---- SpecParse: one call of a parse_*_text handler
    pExt,        \* the extension whose handler is called
    pData,       \* the bytes handed to it
    pRet,        \* what it returned: <<dict or None, error or None>>
    pPc,         \* "call" before the call, "ret" after it
    \* ---- Spec: build_bags_of_words
    dir,         \* os.listdir(MATERIAL_DOWNLOAD_DIR): a set of filenames
    fs,          \* MATERIAL_BAG_OF_WORDS_DIR: bow_path -> file content
    task,        \* filename -> the state of its process_doc coroutine
    batch,       \* position of build_bags_of_words
    rerun,       \* FALSE in the first run over the directory, TRUE after
    \* ---- SpecCorpus: main.py lines 42-44
    bows,        \* material id -> artifact content in the bag-of-words dir
    cfg,         \* the values of constants.NUM_STOP_WORDS / NUM_MAX_KEYWORDS
    cPc,         \* position of main
    invVocab,    \* content of CORPUS_INVERSE_VOCABULARY_PATH
    vocab,       \* content of CORPUS_VOCABULARY_PATH
    stopWords,   \* the set load_stopwords returned
    kws,         \* row -> what get_keywords_for_row returned
    \* ---- SpecLoads: the load tasks of build_corpus_vocabulary
    loads,       \* <<index, result>> of the gathered tasks that completed,
                 \* in the order of their completion
    \* ---- SpecName: one construction of a FilenameTuple
    doc_filename,\* the directory entry handed to FilenameTuple
    filename_tuple, \* the FilenameTuple built, or the exception raised
    nPc,         \* "call" before the construction, "ret" after it
    \* ---- SpecDoc: one call of DOCParser.extract_text
    ole,         \* the streams of the OLE container
    dRet,        \* what extract_text returned or raised
    dPc,         \* "call" before the call, "ret" after it
    \* ---- SpecReport: generate_and_save_keywords_csv
    parsing_info,\* the rows build_bags_of_words returned, in their order
    extended_df  \* the rows written to TF_IDF_DATA_PATH

parseVars  == <<pExt, pData, pRet, pPc>>
bowVars    == <<dir, fs, task, batch, rerun>>
corpusVars == <<bows, cfg, cPc, invVocab, vocab, stopWords, kws>>
loadVars   == <<loads>>
nameVars   == <<doc_filename, filename_tuple, nPc>>
docVars    == <<ole, dRet, dPc>>
reportVars == <<parsing_info, extended_df>>
extVars    == <<loadVars, nameVars, docVars, reportVars>>
vars       == <<parseVars, bowVars, corpusVars, extVars>>

\* Optional[T]: None is the empty tuple, a value x is Some(x)
None == << >>

Some(x) == <<x>>

(***************************************************************************)
(* Python dict, as an insertion-ordered sequence of <<key, value>> pairs.  *)
(***************************************************************************)
DictKeys(d) == [i \in 1..Len(d) |-> d[i][1]]

DictKeySet(d) == {d[i][1] : i \in 1..Len(d)}

DictHas(d, k) == \E i \in 1..Len(d) : d[i][1] = k

\* d.get(k, default)
DictGet(d, k, default) ==
    IF DictHas(d, k)
    THEN d[CHOOSE i \in 1..Len(d) : d[i][1] = k][2]
    ELSE default

\* d[k] = v : an existing key keeps its position, a new key is appended
DictSet(d, k, v) ==
    IF DictHas(d, k)
    THEN [i \in 1..Len(d) |-> IF d[i][1] = k THEN <<k, v>> ELSE d[i]]
    ELSE Append(d, <<k, v>>)

RECURSIVE SumValues(_)
\* sum(d.values())
SumValues(d) == IF d = << >> THEN 0 ELSE d[1][2] + SumValues(Tail(d))

(***************************************************************************)
(* CleanupPatterns (bag_of_words.py 24-38).  A regular expression without  *)
(* repetition is a sequence of character classes; "cid:\d+" is found in a  *)
(* string exactly when "cid:\d" is, and "https?://" when "http://" or      *)
(* "https://" is.                                                          *)
(***************************************************************************)
Digits == {"0", "1", "2", "7"}

Letters == {"a", "b", "c", "d", "f", "h", "i", "p", "s", "t", "u", "w", "x"}

\* \w under re.UNICODE, within the alphabet of the model
WordChars == Letters \cup Digits \cup {"_"}

\* [\W_]
IsStripChar(c) == c \notin WordChars \/ c = "_"

MatchAt(s, i, pat) ==
    /\ i + Len(pat) - 1 <= Len(s)
    /\ \A j \in 1..Len(pat) : s[i + j - 1] \in pat[j]

\* pattern.search(s) is not None
Search(s, pat) == \E i \in 1..Len(s) : MatchAt(s, i, pat)

ban_list ==
    { <<{"c"}, {"i"}, {"d"}, {":"}, Digits>>,
      <<{"\\"}, {"u"}, {"f"}, WordChars, WordChars, WordChars>>,
      <<{"h"}, {"t"}, {"t"}, {"p"}, {":"}, {"/"}, {"/"}>>,
      <<{"h"}, {"t"}, {"t"}, {"p"}, {"s"}, {":"}, {"/"}, {"/"}>>,
      <<{"w"}, {"w"}, {"w"}, {"."}>> }

RECURSIVE StripStart(_)
\* start_pattern.sub("", term)
StripStart(s) ==
    IF s # << >> /\ IsStripChar(s[1]) THEN StripStart(Tail(s)) ELSE s

RECURSIVE StripEnd(_)
\* end_pattern.sub("", term)
StripEnd(s) ==
    IF s # << >> /\ IsStripChar(s[Len(s)])
    THEN StripEnd(SubSeq(s, 1, Len(s) - 1))
    ELSE s

\* cleanup_term with ban_list.match in place of ban_list.search: only a
\* ban pattern at the start of the token rejects it
cleanup_term_match(term) ==
    IF \E pat \in ban_list : MatchAt(term, 1, pat)
    THEN << >>
    ELSE StripEnd(StripStart(term))

cleanup_term(term) ==
    IF \E pat \in ban_list : Search(term, pat)
    THEN << >>
    ELSE StripEnd(StripStart(term))

(***************************************************************************)
(* The parse handlers (bag_of_words.py 41-103).  The bytes of a document   *)
(* are modelled by what the extraction library makes of them: fault is     *)
(* TRUE when it raises on them, words are the tokens it yields otherwise   *)
(* (extract_words of every page in order, or str.split() of the text, so   *)
(* no token is empty or holds whitespace).                                 *)
(***************************************************************************)
RECURSIVE CountTermsUnchecked(_, _, _)
\* CountTerms without the "if term:" test: rejected tokens are counted too
CountTermsUnchecked(words, terms, num_terms) ==
    IF words = << >>
    THEN [num_terms |-> num_terms, terms |-> terms]
    ELSE LET term == cleanup_term(words[1])
         IN  CountTermsUnchecked(Tail(words),
                                 DictSet(terms, term, DictGet(terms, term, 0) + 1),
                                 num_terms + 1)

RECURSIVE CountTerms(_, _, _)
\* the loop shared by the three handlers (lines 48-52, 76-80, 95-99)
CountTerms(words, terms, num_terms) ==
    IF words = << >>
    THEN [num_terms |-> num_terms, terms |-> terms]
    ELSE LET term == cleanup_term(words[1])
         IN  IF term # << >>
             THEN CountTerms(Tail(words),
                             DictSet(terms, term, DictGet(terms, term, 0) + 1),
                             num_terms + 1)
             ELSE CountTerms(Tail(words), terms, num_terms)

parse_pdf_text(pdf_bytes) ==
    IF pdf_bytes.fault
    THEN <<None, Some("PDFSyntaxError()")>>
    ELSE <<Some(CountTerms(pdf_bytes.words, << >>, 0)), None>>

\* zipfile.ZipFile is handed the bytes object itself, not a BytesIO of it:
\* it takes it for an open file and fails on its first seek, so the handler
\* returns the error for every input.
parse_docx_text(word_bytes) ==
    <<None, Some("AttributeError(\"'bytes' object has no attribute 'seek'\")")>>

parse_doc_text(word_bytes) ==
    IF word_bytes.fault
    THEN <<None, Some("ReaderError('Invalid format - not a Word doc file')")>>
    ELSE <<Some(CountTerms(word_bytes.words, << >>, 0)), None>>

\* Parsers.handlers
Handlers == {".pdf", ".docx", ".doc"}

is_extension_supported(extension) == extension \in Handlers

\* Parsers.parse
Parse(extension, data) ==
    CASE extension = ".pdf"  -> parse_pdf_text(data)
      [] extension = ".docx" -> parse_docx_text(data)
      [] extension = ".doc"  -> parse_doc_text(data)

(***************************************************************************)
(* Tokens and documents the specifications draw from.                      *)
(***************************************************************************)
TokA     == <<"a">>
TokB     == <<"b">>
TokC     == <<"c">>
TokD     == <<"d">>
TokQuote == <<"(", "a", ")", ".">>
TokUnder == <<"_", "b", "-", "b", "_">>
TokPunct == <<"-", "_", "-">>
TokWww   == <<"w", "w", "w", ".", "a">>
TokCid   == <<"(", "c", "i", "d", ":", "7", ")">>

TokHttp  == <<"x", "h", "t", "t", "p", ":", "/", "/", "a">>
TokHttps == <<"h", "t", "t", "p", "s", ":", "/", "/">>
TokUf    == <<"a", "\\", "u", "f", "0", "0", "2">>

Tokens == {TokA, TokB, TokQuote, TokUnder, TokPunct, TokWww, TokCid,
           TokHttp, TokHttps, TokUf}

MaxWords == 3

RECURSIVE SeqsUpTo(_, _)
\* every sequence over S of length at most n
SeqsUpTo(S, n) ==
    IF n = 0 THEN {<< >>}
    ELSE LET shorter == SeqsUpTo(S, n - 1)
         IN  shorter \cup
             {Append(s, x) : s \in {t \in shorter : Len(t) = n - 1}, x \in S}

Faulty == [fault |-> TRUE, words |-> << >>]

ParseInputs == {Faulty} \cup
               {[fault |-> FALSE, words |-> w] : w \in SeqsUpTo(Tokens, MaxWords)}

(***************************************************************************)
(* SpecParse: one call of one handler on one input.                        *)
(***************************************************************************)
BowIdle ==
    /\ dir = {}
    /\ fs = << >>
    /\ task = << >>
    /\ batch = "idle"
    /\ rerun = FALSE

CorpusIdle ==
    /\ bows = << >>
    /\ cfg = << >>
    /\ cPc = "idle"
    /\ invVocab = None
    /\ vocab = None
    /\ stopWords = {}
    /\ kws = << >>

ParseIdle ==
    /\ pExt = None
    /\ pData = None
    /\ pRet = None
    /\ pPc = "idle"

LoadIdle == loads = << >>

NameIdle ==
    /\ doc_filename = << >>
    /\ filename_tuple = None
    /\ nPc = "idle"

DocIdle ==
    /\ ole = << >>
    /\ dRet = None
    /\ dPc = "idle"

ReportIdle ==
    /\ parsing_info = << >>
    /\ extended_df = None

ExtIdle == LoadIdle /\ NameIdle /\ DocIdle /\ ReportIdle

InitParse ==
    /\ pExt \in Handlers
    /\ pData \in ParseInputs
    /\ pRet = None
    /\ pPc = "call"
    /\ BowIdle
    /\ CorpusIdle
    /\ ExtIdle

CallHandler ==
    /\ pPc = "call"
    /\ pRet' = Parse(pExt, pData)
    /\ pPc' = "ret"
    /\ UNCHANGED <<pExt, pData, bowVars, corpusVars, extVars>>

NextParse == CallHandler

SpecParse == InitParse /\ [][NextParse]_vars

(***************************************************************************)
(* Spec: build_bags_of_words over a download directory (bag_of_words.py    *)
(* 106-212).  A filename is the FilenameTuple built from it; its bow_path  *)
(* is "<material_id>.json", so the artifact directory is indexed by        *)
(* material id.  A file's content is "" from the moment it is opened for   *)
(* writing until the write lands.                                          *)
(***************************************************************************)
Ids == {1, 2}

Exts == {".pdf", ".doc", ".docx", ".txt"}

Filenames == [material_id : Ids, extension : Exts]

MaxFiles == 2

\* max_workers of the ProcessPoolExecutor
MaxWorkers == 1

bow_path(tup) == tup.material_id

NoFile == [exists |-> FALSE, data |-> << >>]

\* json.dumps of a TermDictionary: never the empty string
json_dumps(d) == <<"{num_terms:", d.num_terms, "terms:", d.terms, "}">>

\* json.loads of a string json_dumps produced
json_loads(s) == [num_terms |-> s[2], terms |-> s[4]]

\* what a source file may hold
DocDatas ==
    { Faulty,
      [fault |-> FALSE, words |-> <<TokPunct>>],
      [fault |-> FALSE, words |-> <<TokA, TokQuote, TokCid>>] }

parse_document(tup, data) ==
    IF ~is_extension_supported(tup.extension)
    THEN <<"", Some("No relevant parser implemented")>>
    ELSE LET r == Parse(tup.extension, data)
         IN  IF r[2] # None
             THEN <<"", r[2]>>
             ELSE <<json_dumps(r[1][1]), None>>

NoOutcome == << >>

NewTask(tup) ==
    [ pc      |-> "exists",
      existed |-> fs[bow_path(tup)].exists,
      data    |-> None,
      ret     |-> None,
      reads   |-> 0,
      submits |-> 0,
      writes  |-> 0,
      outcome |-> NoOutcome ]

Parsing == {f \in dir : task[f].pc = "parsing"}

Queued == {f \in dir : task[f].pc = "queued"}

Finished(f) == task[f].pc \in {"done", "raised", "cancelled"}

Init ==
    /\ dir \in {d \in SUBSET Filenames : Cardinality(d) \in 1..MaxFiles}
    /\ fs = [p \in Ids |-> NoFile]
    /\ task = << >>
    /\ batch = "idle"
    /\ rerun = FALSE
    /\ ParseIdle
    /\ CorpusIdle
    /\ ExtIdle

\* lines 192-204: the tuples, the executor and one process_doc per file
BuildBagsOfWords ==
    /\ batch \in {"idle", "returned", "raised", "cancelled"}
    /\ task' = [f \in dir |-> NewTask(f)]
    /\ batch' = "running"
    /\ rerun' = (batch # "idle")
    /\ UNCHANGED <<dir, fs, parseVars, corpusVars, extVars>>

\* process_doc without its short-circuit: the source is always loaded
ExistsCheckNoSkip(f) ==
    /\ batch = "running"
    /\ task[f].pc = "exists"
    /\ task' = [task EXCEPT ![f].pc = "load"]
    /\ UNCHANGED <<dir, fs, batch, rerun, parseVars, corpusVars, extVars>>

\* lines 170-172
ExistsCheck(f) ==
    /\ batch = "running"
    /\ task[f].pc = "exists"
    /\ IF fs[bow_path(f)].exists
       THEN task' = [task EXCEPT ![f].pc = "done",
                                 ![f].outcome = <<f.material_id, TRUE, "">>]
       ELSE task' = [task EXCEPT ![f].pc = "load"]
    /\ UNCHANGED <<dir, fs, batch, rerun, parseVars, corpusVars, extVars>>

\* lines 174-179: load_document, whose failure is not caught, then the
\* submission of parse_document to the executor
LoadDocument(f) ==
    /\ batch = "running"
    /\ task[f].pc = "load"
    /\ \/ task' = [task EXCEPT ![f].pc = "raised",
                               ![f].reads = @ + 1]
       \/ \E d \in DocDatas :
              task' = [task EXCEPT ![f].pc = "queued",
                                   ![f].data = Some(d),
                                   ![f].reads = @ + 1,
                                   ![f].submits = @ + 1]
    /\ UNCHANGED <<dir, fs, batch, rerun, parseVars, corpusVars, extVars>>

\* a free worker process takes the work item; the pool keeps serving its
\* queue while the failed batch waits for it in the executor's __exit__
WorkerStart(f) ==
    /\ batch \in {"running", "raising"}
    /\ task[f].pc = "queued"
    /\ Cardinality(Parsing) < MaxWorkers
    /\ task' = [task EXCEPT ![f].pc = "parsing"]
    /\ UNCHANGED <<dir, fs, batch, rerun, parseVars, corpusVars, extVars>>

\* the worker returns parse_document's result (lines 148-157)
WorkerFinish(f) ==
    /\ batch \in {"running", "raising", "shutdown"}
    /\ task[f].pc = "parsing"
    /\ task' = [task EXCEPT ![f].pc = "parsed",
                            ![f].data = None,
                            ![f].ret = Some(parse_document(f, task[f].data[1]))]
    /\ UNCHANGED <<dir, fs, batch, rerun, parseVars, corpusVars, extVars>>

\* lines 181-186: the coroutine resumes with the result
Resume(f) ==
    /\ batch = "running"
    /\ task[f].pc = "parsed"
    /\ LET bag_of_words == task[f].ret[1][1]
           parse_error  == task[f].ret[1][2]
       IN  IF Len(bag_of_words) = 0
           THEN IF parse_error # None
                THEN task' = [task EXCEPT
                         ![f].pc = "done",
                         ![f].ret = None,
                         ![f].outcome = <<f.material_id, FALSE, parse_error[1]>>]
                ELSE task' = [task EXCEPT
                         ![f].pc = "done",
                         ![f].ret = None,
                         ![f].outcome =
                             <<f.material_id, FALSE, "Produced empty vocabulary">>]
           ELSE task' = [task EXCEPT ![f].pc = "save_open"]
    /\ UNCHANGED <<dir, fs, batch, rerun, parseVars, corpusVars, extVars>>

\* line 161: aiofiles.open(mode="w") creates or truncates the artifact
SaveOpen(f) ==
    /\ batch = "running"
    /\ task[f].pc = "save_open"
    /\ fs' = [fs EXCEPT ![bow_path(f)] = [exists |-> TRUE, data |-> << >>]]
    /\ task' = [task EXCEPT ![f].pc = "save_write"]
    /\ UNCHANGED <<dir, batch, rerun, parseVars, corpusVars, extVars>>

\* lines 162 and 188: the write, the close and the return
SaveWrite(f) ==
    /\ batch = "running"
    /\ task[f].pc = "save_write"
    /\ fs' = [fs EXCEPT ![bow_path(f)] =
                 [exists |-> TRUE, data |-> task[f].ret[1][1]]]
    /\ task' = [task EXCEPT ![f].pc = "done",
                            ![f].ret = None,
                            ![f].writes = @ + 1,
                            ![f].outcome = <<f.material_id, TRUE, "">>]
    /\ UNCHANGED <<dir, batch, rerun, parseVars, corpusVars, extVars>>

\* lines 201-204 and 209-212: every process_doc returned
Return ==
    /\ batch = "running"
    /\ \A f \in dir : task[f].pc = "done"
    /\ batch' = "returned"
    /\ UNCHANGED <<dir, fs, task, rerun, parseVars, corpusVars, extVars>>

\* a process_doc raised: the exception leaves the gather and the with
\* block, whose exit waits for the pool (line 199)
RaiseOut ==
    /\ batch = "running"
    /\ \E f \in dir : task[f].pc = "raised"
    /\ batch' = "raising"
    /\ UNCHANGED <<dir, fs, task, rerun, parseVars, corpusVars, extVars>>

\* the pool is drained; the exception leaves build_bags_of_words and the
\* event loop cancels what is left of the tasks
RaiseDone ==
    /\ batch = "raising"
    /\ Parsing = {} /\ Queued = {}
    /\ batch' = "raised"
    /\ task' = [f \in dir |->
                   IF Finished(f) THEN task[f]
                   ELSE [task[f] EXCEPT !.pc = "cancelled",
                                        !.data = None, !.ret = None]]
    /\ UNCHANGED <<dir, fs, rerun, parseVars, corpusVars, extVars>>

\* lines 205-206: the batch is cancelled; shutdown(cancel_futures=True)
\* cancels the queued work items and waits for the running ones
Cancel ==
    /\ batch = "running"
    /\ batch' = "shutdown"
    /\ task' = [f \in dir |->
                   IF task[f].pc = "queued"
                   THEN [task[f] EXCEPT !.pc = "cancelled", !.data = None]
                   ELSE task[f]]
    /\ UNCHANGED <<dir, fs, rerun, parseVars, corpusVars, extVars>>

\* the re-raise after executor.shutdown(wait=False): the CancelledError
\* leaves while worker processes are still parsing
PropagateNoWait ==
    /\ batch = "shutdown"
    /\ batch' = "cancelled"
    /\ task' = [f \in dir |->
                   IF Finished(f) \/ task[f].pc = "parsing" THEN task[f]
                   ELSE [task[f] EXCEPT !.pc = "cancelled",
                                        !.data = None, !.ret = None]]
    /\ UNCHANGED <<dir, fs, rerun, parseVars, corpusVars, extVars>>

\* line 207: the CancelledError is re-raised once no worker is running; the
\* coroutines still waiting are cancelled where they wait
Propagate ==
    /\ batch = "shutdown"
    /\ Parsing = {}
    /\ batch' = "cancelled"
    /\ task' = [f \in dir |->
                   IF Finished(f) THEN task[f]
                   ELSE [task[f] EXCEPT !.pc = "cancelled",
                                        !.data = None, !.ret = None]]
    /\ UNCHANGED <<dir, fs, rerun, parseVars, corpusVars, extVars>>

Next ==
    \/ BuildBagsOfWords
    \/ \E f \in dir : ExistsCheck(f)
    \/ \E f \in dir : LoadDocument(f)
    \/ \E f \in dir : WorkerStart(f)
    \/ \E f \in dir : WorkerFinish(f)
    \/ \E f \in dir : Resume(f)
    \/ \E f \in dir : SaveOpen(f)
    \/ \E f \in dir : SaveWrite(f)
    \/ Return
    \/ RaiseOut
    \/ RaiseDone
    \/ Cancel
    \/ Propagate

Spec == Init /\ [][Next]_vars

\* Spec under fair scheduling: the event loop resumes every coroutine that
\* can run, a free worker takes a queued work item, a started read or parse
\* ends, and build_bags_of_words goes on when its gather is over.  Calling
\* build_bags_of_words and cancelling it are left to the caller.
FairSpec ==
    /\ Spec
    /\ \A f \in Filenames :
           WF_vars(f \in dir /\ (\/ ExistsCheck(f) \/ LoadDocument(f)
                                 \/ WorkerStart(f) \/ WorkerFinish(f)
                                 \/ Resume(f) \/ SaveOpen(f) \/ SaveWrite(f)))
    /\ WF_vars(Return \/ RaiseOut \/ RaiseDone \/ Propagate)

(***************************************************************************)
(* SpecCorpus: build_corpus_vocabulary, load_stopwords and the keyword     *)
(* stage (tf_idf.py, called from main.py 42-44).  A score is a fixed-point *)
(* number in units of 10^-6; logarithms are tabulated to 10^-4, so that    *)
(* two scores of one document compare as the exact values do for every     *)
(* document of up to 100 tokens.                                           *)
(***************************************************************************)
NUM_STOP_WORDS == 200

NUM_MAX_KEYWORDS == 5

\* 0.02, in units of 10^-6
TF_IDF_SCORE_THRESHOLD == 20000

\* the rows of parsing_info are the material ids 1..MaxDocs
MaxDocs == 3

Rows == 1..MaxDocs

\* the values of the two configuration constants: the shipped ones, and
\* smaller ones that a corpus of a few terms reaches
Cfgs ==
    { [num_stop_words |-> NUM_STOP_WORDS, num_max_keywords |-> NUM_MAX_KEYWORDS],
      [num_stop_words |-> 2, num_max_keywords |-> NUM_MAX_KEYWORDS],
      [num_stop_words |-> 1, num_max_keywords |-> 2],
      [num_stop_words |-> 1, num_max_keywords |-> 1] }

\* n copies of the word w
Repeat(w, n) == [i \in 1..n |-> w]

\* the texts whose dictionaries the bag-of-words stage left behind
CorpusTexts ==
    { <<TokA, TokA, TokA, TokB>>,
      <<TokA, TokC, TokC>>,
      <<TokA, TokA>>,
      <<TokPunct>>,
      <<TokD, TokC, TokB, TokA>>,
      <<TokB, TokC>> \o Repeat(TokA, 24) }

\* what a bow_path may hold: nothing, a file opened and never written, or
\* the dictionary of a text
ArtifactFiles ==
    { NoFile, [exists |-> TRUE, data |-> << >>] } \cup
    { [exists |-> TRUE, data |-> json_dumps(CountTerms(w, << >>, 0))] :
          w \in CorpusTexts }

RECURSIVE ListingWithoutFirst(_)
\* a listing taken before the artifact of material 1 was there
ListingWithoutFirst(n) ==
    IF n <= 1 THEN << >>
    ELSE IF bows[n].exists THEN Append(ListingWithoutFirst(n - 1), n)
         ELSE ListingWithoutFirst(n - 1)

\* os.listdir(MATERIAL_BAG_OF_WORDS_DIR), as material ids
RECURSIVE Listing(_)
Listing(n) ==
    IF n = 0 THEN << >>
    ELSE IF bows[n].exists THEN Append(Listing(n - 1), n) ELSE Listing(n - 1)

\* the list gather returns: load_doc_vocab of every listed file
Vocabs == LET l == Listing(MaxDocs)
          IN  [i \in 1..Len(l) |-> json_loads(bows[l[i]].data)]

RECURSIVE CountPresenceMagnitude(_, _)
\* the doc_frequency fold adding the term's count instead of 1
CountPresenceMagnitude(terms, freq) ==
    IF terms = << >> THEN freq
    ELSE CountPresenceMagnitude(Tail(terms),
             DictSet(freq, terms[1][1], DictGet(freq, terms[1][1], 0) + terms[1][2]))

RECURSIVE CountPresence(_, _)
\* lines 38-39: the inner loop over one vocab
CountPresence(terms, freq) ==
    IF terms = << >> THEN freq
    ELSE CountPresence(Tail(terms),
             DictSet(freq, terms[1][1], DictGet(freq, terms[1][1], 0) + 1))

RECURSIVE DocFrequency(_, _)
\* lines 36-39
DocFrequency(vocabs, freq) ==
    IF vocabs = << >> THEN freq
    ELSE DocFrequency(Tail(vocabs), CountPresence(vocabs[1].terms, freq))

RECURSIVE CountMagnitudePresence(_, _)
\* the term_frequency fold adding 1 instead of the term's count
CountMagnitudePresence(terms, freq) ==
    IF terms = << >> THEN freq
    ELSE CountMagnitudePresence(Tail(terms),
             DictSet(freq, terms[1][1], DictGet(freq, terms[1][1], 0) + 1))

RECURSIVE CountMagnitude(_, _)
\* lines 49-50: the inner loop over one vocab
CountMagnitude(terms, freq) ==
    IF terms = << >> THEN freq
    ELSE CountMagnitude(Tail(terms),
             DictSet(freq, terms[1][1], DictGet(freq, terms[1][1], 0) + terms[1][2]))

RECURSIVE TermFrequency(_, _)
\* lines 47-50
TermFrequency(vocabs, freq) ==
    IF vocabs = << >> THEN freq
    ELSE TermFrequency(Tail(vocabs), CountMagnitude(vocabs[1].terms, freq))

\* d[k], a KeyError when k is no key of d
DictAt(d, k) == d[CHOOSE i \in 1..Len(d) : d[i][1] = k][2]

RECURSIVE InsertDesc(_, _)
\* item placed behind every element whose key is not smaller than its own
InsertDesc(sorted, item) ==
    IF sorted = << >> THEN <<item>>
    ELSE IF sorted[1][2] >= item[2]
         THEN <<sorted[1]>> \o InsertDesc(Tail(sorted), item)
         ELSE <<item>> \o sorted

RECURSIVE SortedDescFrom(_, _)
SortedDescFrom(items, sorted) ==
    IF items = << >> THEN sorted
    ELSE SortedDescFrom(Tail(items), InsertDesc(sorted, items[1]))

\* sorted(items, key=itemgetter(1), reverse=True): stable
SortedDesc(items) == SortedDescFrom(items, << >>)

RECURSIVE InsertAsc(_, _)
InsertAsc(sorted, item) ==
    IF sorted = << >> THEN <<item>>
    ELSE IF sorted[1][2] <= item[2]
         THEN <<sorted[1]>> \o InsertAsc(Tail(sorted), item)
         ELSE <<item>> \o sorted

RECURSIVE SortedAscFrom(_, _)
SortedAscFrom(items, sorted) ==
    IF items = << >> THEN sorted
    ELSE SortedAscFrom(Tail(items), InsertAsc(sorted, items[1]))

\* load_stopwords without reverse=True: the rarest terms come first
load_stopwords_ascending ==
    LET ranked_terms == SortedAscFrom(vocab[1].terms, << >>)
    IN  { ranked_terms[idx + 1][1] :
              idx \in {i \in 0..(Len(ranked_terms) - 1) : i < cfg.num_stop_words} }

\* lines 59-74, on the content of CORPUS_VOCABULARY_PATH
load_stopwords ==
    LET ranked_terms == SortedDesc(vocab[1].terms)
    IN  { ranked_terms[idx + 1][1] :
              idx \in {i \in 0..(Len(ranked_terms) - 1) : i < cfg.num_stop_words} }

\* ln(n) in units of 10^-4
LnTable == <<0, 6931, 10986, 13862, 16094, 17917, 19459, 20793>>

\* np.log(num_docs / doc_frequency), in units of 10^-4
Log(num_docs, doc_frequency) == LnTable[num_docs] - LnTable[doc_frequency]

\* lines 77-89: term -> tf * idf, in units of 10^-6
compute_tf_idf(global_vocab, local_vocab) ==
    [i \in 1..Len(local_vocab.terms) |->
        LET t == local_vocab.terms[i][1]
        IN  <<t, (local_vocab.terms[i][2] * 100
                    * Log(global_vocab.num_docs, DictAt(global_vocab.doc_frequency, t)))
                 \div local_vocab.num_terms>>]

RECURSIVE KeywordLoop(_, _, _)
\* lines 100-108
KeywordLoop(tf_idf, stop_words, keywords) ==
    IF tf_idf = << >> THEN keywords
    ELSE IF tf_idf[1][1] \in stop_words
         THEN KeywordLoop(Tail(tf_idf), stop_words, keywords)
         ELSE IF tf_idf[1][2] >= TF_IDF_SCORE_THRESHOLD
              THEN IF Len(keywords) + 1 >= cfg.num_max_keywords
                   THEN Append(keywords, tf_idf[1][1])
                   ELSE KeywordLoop(Tail(tf_idf), stop_words,
                                    Append(keywords, tf_idf[1][1]))
              ELSE keywords

RECURSIVE KeywordLoopUncapped(_, _, _)
\* the loop without the test on len(keywords)
KeywordLoopUncapped(tf_idf, stop_words, keywords) ==
    IF tf_idf = << >> THEN keywords
    ELSE IF tf_idf[1][1] \in stop_words
         THEN KeywordLoopUncapped(Tail(tf_idf), stop_words, keywords)
         ELSE IF tf_idf[1][2] >= TF_IDF_SCORE_THRESHOLD
              THEN KeywordLoopUncapped(Tail(tf_idf), stop_words,
                                       Append(keywords, tf_idf[1][1]))
              ELSE keywords

\* generate_keywords without the cap of NUM_MAX_KEYWORDS
generate_keywords_uncapped(global_vocab, stop_words, local_vocab) ==
    KeywordLoopUncapped(SortedDesc(compute_tf_idf(global_vocab, local_vocab)),
                        stop_words, << >>)

\* generate_keywords without the stopword test
generate_keywords_unfiltered(global_vocab, stop_words, local_vocab) ==
    KeywordLoop(SortedDesc(compute_tf_idf(global_vocab, local_vocab)), {}, << >>)

\* lines 92-110
generate_keywords(global_vocab, stop_words, local_vocab) ==
    KeywordLoop(SortedDesc(compute_tf_idf(global_vocab, local_vocab)),
                stop_words, << >>)

RECURSIVE Join(_)
\* ", ".join(kws)
Join(l) ==
    IF l = << >> THEN << >>
    ELSE IF Len(l) = 1 THEN l[1]
         ELSE l[1] \o <<",", " ">> \o Join(Tail(l))

InitCorpus ==
    /\ bows \in [Rows -> ArtifactFiles]
    /\ cfg \in Cfgs
    /\ cPc = "vocab"
    /\ invVocab = None
    /\ vocab = None
    /\ stopWords = {}
    /\ kws = [r \in Rows |-> None]
    /\ ParseIdle
    /\ BowIdle
    /\ ExtIdle

\* lines 15-56; json.loads raises on a file that holds no text, before
\* either corpus file is written
BuildCorpusVocabulary ==
    /\ cPc = "vocab"
    /\ IF \E r \in Rows : bows[r].exists /\ bows[r].data = << >>
       THEN /\ cPc' = "failed"
            /\ UNCHANGED <<invVocab, vocab>>
       ELSE LET vocabs == Vocabs
                doc_frequency == DocFrequency(vocabs, << >>)
                term_frequency == TermFrequency(vocabs, << >>)
            IN  /\ invVocab' = Some([num_docs |-> Len(vocabs),
                                     doc_frequency |-> doc_frequency])
                /\ vocab' = Some([num_terms |-> Len(term_frequency),
                                  terms |-> term_frequency])
                /\ cPc' = "stop"
    /\ UNCHANGED <<bows, cfg, stopWords, kws, parseVars, bowVars, extVars>>

\* main.py line 43
LoadStopwords ==
    /\ cPc = "stop"
    /\ stopWords' = load_stopwords
    /\ cPc' = "kw"
    /\ UNCHANGED <<bows, cfg, invVocab, vocab, kws, parseVars, bowVars, extVars>>

\* get_keywords_for_row without the os.path.exists test of lines 121-123:
\* open() is reached for a row that has no artifact and raises
GetKeywordsForRowUnchecked(row) ==
    /\ cPc = "kw"
    /\ kws[row] = None
    /\ IF ~bows[row].exists
       THEN /\ kws' = [kws EXCEPT ![row] =
                          Some([kws |-> << >>, ret |-> << >>, reads |-> 1])]
            /\ cPc' = "failed"
       ELSE LET doc_vocab == json_loads(bows[row].data)
                l == generate_keywords(invVocab[1], stopWords, doc_vocab)
            IN  /\ kws' = [kws EXCEPT ![row] =
                              Some([kws |-> l, ret |-> Join(l), reads |-> 1])]
                /\ cPc' = cPc
    /\ UNCHANGED <<bows, cfg, invVocab, vocab, stopWords, parseVars, bowVars, extVars>>

\* lines 113-131, for one row of parsing_info; reads counts the open() calls
GetKeywordsForRow(row) ==
    /\ cPc = "kw"
    /\ kws[row] = None
    /\ IF ~bows[row].exists
       THEN kws' = [kws EXCEPT ![row] =
                       Some([kws |-> << >>, ret |-> << >>, reads |-> 0])]
       ELSE LET doc_vocab == json_loads(bows[row].data)
                l == generate_keywords(invVocab[1], stopWords, doc_vocab)
            IN  kws' = [kws EXCEPT ![row] =
                           Some([kws |-> l, ret |-> Join(l), reads |-> 1])]
    /\ cPc' = cPc
    /\ UNCHANGED <<bows, cfg, invVocab, vocab, stopWords, parseVars, bowVars, extVars>>

\* lines 150-165: every row has its keywords, the report is written
SaveKeywordsCsv ==
    /\ cPc = "kw"
    /\ \A r \in Rows : kws[r] # None
    /\ cPc' = "done"
    /\ UNCHANGED <<bows, cfg, invVocab, vocab, stopWords, kws, parseVars, bowVars, extVars>>

NextCorpus ==
    \/ BuildCorpusVocabulary
    \/ LoadStopwords
    \/ \E row \in Rows : GetKeywordsForRow(row)
    \/ SaveKeywordsCsv

SpecCorpus == InitCorpus /\ [][NextCorpus]_vars

(***************************************************************************)
(* SpecLoads: build_corpus_vocabulary (tf_idf.py 15-56) with its load      *)
(* tasks taken one by one.  The gather starts one load_doc_vocab per       *)
(* listed artifact; they complete in any order; tqdm.gather hands back the *)
(* results sorted by the position of their coroutine.  The two folds run   *)
(* in build_corpus_vocabulary itself, after the gather.                    *)
(***************************************************************************)
Loaded == {loads[i][1] : i \in 1..Len(loads)}

\* the load tasks that have not completed
InFlight == {r \in Rows : bows[r].exists /\ r \notin Loaded}

\* the results in the order the loads completed
GatherAsCompleted == [i \in 1..Len(loads) |-> loads[i][2]]

RECURSIVE InsertByIndex(_, _)
InsertByIndex(sorted, item) ==
    IF sorted = << >> THEN <<item>>
    ELSE IF sorted[1][1] < item[1]
         THEN <<sorted[1]>> \o InsertByIndex(Tail(sorted), item)
         ELSE <<item>> \o sorted

RECURSIVE SortedByIndex(_)
SortedByIndex(res) ==
    IF res = << >> THEN << >>
    ELSE InsertByIndex(SortedByIndex(Tail(res)), res[1])

\* utils.gather_unlimited_concurrency: [r for _, r in sorted(res)], res
\* being the (index, result) pairs in completion order
gather_unlimited_concurrency ==
    LET res == SortedByIndex(loads)
    IN  [i \in 1..Len(res) |-> res[i][2]]

InitLoads ==
    /\ bows \in [Rows -> ArtifactFiles]
    /\ cfg = << >>
    /\ cPc = "gather"
    /\ invVocab = None
    /\ vocab = None
    /\ stopWords = {}
    /\ kws = << >>
    /\ loads = << >>
    /\ NameIdle
    /\ DocIdle
    /\ ReportIdle
    /\ ParseIdle
    /\ BowIdle

\* lines 16-23: one load task completes; json.loads raises on an artifact
\* that holds no text and the gather passes the exception on
LoadDocVocab(r) ==
    /\ cPc = "gather"
    /\ r \in InFlight
    /\ IF bows[r].data = << >>
       THEN /\ cPc' = "failed"
            /\ loads' = loads
       ELSE /\ loads' = Append(loads, <<r, json_loads(bows[r].data)>>)
            /\ cPc' = cPc
    /\ UNCHANGED <<bows, cfg, invVocab, vocab, stopWords, kws,
                   nameVars, docVars, reportVars, parseVars, bowVars>>

\* lines 25-45: the gather returns, doc_frequency is folded and written
WriteInverseVocabulary ==
    /\ cPc = "gather"
    /\ InFlight = {}
    /\ LET vocabs == gather_unlimited_concurrency
       IN  invVocab' = Some([num_docs |-> Len(vocabs),
                             doc_frequency |-> DocFrequency(vocabs, << >>)])
    /\ cPc' = "inverse_written"
    /\ UNCHANGED <<bows, cfg, vocab, stopWords, kws, loads,
                   nameVars, docVars, reportVars, parseVars, bowVars>>

\* lines 47-56: term_frequency is folded and written
WriteVocabulary ==
    /\ cPc = "inverse_written"
    /\ LET vocabs == gather_unlimited_concurrency
           term_frequency == TermFrequency(vocabs, << >>)
       IN  vocab' = Some([num_terms |-> Len(term_frequency),
                          terms |-> term_frequency])
    /\ cPc' = "stop"
    /\ UNCHANGED <<bows, cfg, invVocab, stopWords, kws, loads,
                   nameVars, docVars, reportVars, parseVars, bowVars>>

NextLoads ==
    \/ \E r \in Rows : LoadDocVocab(r)
    \/ WriteInverseVocabulary
    \/ WriteVocabulary

SpecLoads == InitLoads /\ [][NextLoads]_vars

(***************************************************************************)
(* SpecReport: main.py 42-44 with the keyword tasks of                     *)
(* generate_and_save_keywords_csv (tf_idf.py 134-165) taken one by one.    *)
(* parsing_info is the frame build_bags_of_words returned: one row         *)
(* <<Material_ID, Parsing_OK, Parsing_Error_Message>> per file, two files  *)
(* of one material giving two rows.  Task i serves row i; the tasks        *)
(* complete in any order; assign() lays the gathered list on the rows by   *)
(* position.                                                               *)
(***************************************************************************)
\* lines 113-131: the string returned for a row of parsing_info
get_keywords_for_row(corpus_vocab, stop_words, row) ==
    IF ~bows[row[1]].exists
    THEN << >>
    ELSE Join(generate_keywords(corpus_vocab, stop_words,
                                json_loads(bows[row[1]].data)))

InitReport ==
    /\ bows \in [Rows -> { NoFile } \cup
                   { [exists |-> TRUE, data |-> json_dumps(CountTerms(w, << >>, 0))] :
                         w \in {<<TokA, TokA, TokA, TokB>>, <<TokA, TokC, TokC>>} }]
    /\ cfg = [num_stop_words |-> 1, num_max_keywords |-> 2]
    /\ cPc = "vocab"
    /\ invVocab = None
    /\ vocab = None
    /\ stopWords = {}
    /\ kws = << >>
    /\ loads = << >>
    /\ parsing_info \in
           UNION { [1..n -> { <<r, bows[r].exists,
                              IF bows[r].exists THEN ""
                              ELSE "No relevant parser implemented">> :
                                r \in Rows } \cup
                            { <<1, FALSE, "Produced empty vocabulary">> }] :
                       n \in 1..MaxFiles }
    /\ extended_df = None
    /\ NameIdle
    /\ DocIdle
    /\ ParseIdle
    /\ BowIdle

\* lines 142-148: the task of row i completes
GetKeywordsTask(i) ==
    /\ cPc = "kw"
    /\ i \in 1..Len(parsing_info)
    /\ \A k \in 1..Len(loads) : loads[k][1] # i
    /\ loads' = Append(loads,
                    <<i, get_keywords_for_row(invVocab[1], stopWords, parsing_info[i])>>)
    /\ UNCHANGED <<corpusVars, nameVars, docVars, reportVars, parseVars, bowVars>>

\* lines 142-165: the gather returns and the frame is extended and written
GenerateAndSaveKeywordsCsv ==
    /\ cPc = "kw"
    /\ Len(loads) = Len(parsing_info)
    /\ LET generated == gather_unlimited_concurrency
       IN  extended_df' = Some([i \in 1..Len(parsing_info) |->
                                   [Material_ID           |-> parsing_info[i][1],
                                    Parsing_OK            |-> parsing_info[i][2],
                                    Parsing_Error_Message |-> parsing_info[i][3],
                                    Generated_Keywords    |-> generated[i]]])
    /\ cPc' = "done"
    /\ UNCHANGED <<bows, cfg, invVocab, vocab, stopWords, kws, loads, parsing_info,
                   nameVars, docVars, parseVars, bowVars>>

NextReport ==
    \/ BuildCorpusVocabulary
    \/ LoadStopwords
    \/ \E i \in 1..MaxFiles : GetKeywordsTask(i)
    \/ GenerateAndSaveKeywordsCsv

SpecReport == InitReport /\ [][NextReport]_vars

(***************************************************************************)
(* SpecDoc: DOCParser.extract_text (doc_parser.py 34-187) on the streams   *)
(* of one OLE container, and the try/except of parse_doc_text around it.   *)
(* A stream is a sequence of bytes (0..255) and offset k of the source is  *)
(* element k + 1; a decoded text is a sequence of code points.             *)
(***************************************************************************)
Ok(text, runs) == [text |-> Some(text), err |-> None, runs |-> runs]

Raise(e) == [text |-> None, err |-> Some(e), runs |-> << >>]

\* struct.unpack_from needs the n bytes from offset on
Fits(s, offset, n) == offset + n <= Len(s)

RECURSIVE UInt(_, _, _)
\* "<B", "<H", "<I" (and native "I" on a little-endian machine)
UInt(s, offset, n) ==
    IF n = 0 THEN 0
    ELSE s[offset + 1] + 256 * UInt(s, offset + 1, n - 1)

\* s[a:b] for a >= 0: a negative b counts from the end
Slice(s, a, b) ==
    LET e0 == IF b < 0 THEN b + Len(s) ELSE b
        e  == IF e0 < 0 THEN 0 ELSE IF e0 > Len(s) THEN Len(s) ELSE e0
    IN  IF a >= e THEN << >> ELSE SubSeq(s, a + 1, e)

\* the range the second byte of a UTF-8 sequence must lie in, by lead byte
SecondOk(lead, b) ==
    CASE lead = 224 -> 160 <= b /\ b <= 191
      [] lead = 237 -> 128 <= b /\ b <= 159
      [] lead = 240 -> 144 <= b /\ b <= 191
      [] lead = 244 -> 128 <= b /\ b <= 143
      [] OTHER      -> 128 <= b /\ b <= 191

\* bytes a UTF-8 sequence with this lead byte has; 0 for no lead byte
SeqLen(lead) ==
    IF lead < 128 THEN 1
    ELSE IF 194 <= lead /\ lead <= 223 THEN 2
    ELSE IF 224 <= lead /\ lead <= 239 THEN 3
    ELSE IF 240 <= lead /\ lead <= 244 THEN 4
    ELSE 0

RECURSIVE DecodeUtf8(_)
\* bytes.decode("utf-8", errors="replace"): an ill-formed sequence gives
\* one U+FFFD (65533) for its longest well-formed start
DecodeUtf8(b) ==
    IF b = << >> THEN << >>
    ELSE LET n == SeqLen(b[1])
         IN  IF n = 1 THEN <<b[1]>> \o DecodeUtf8(Tail(b))
             ELSE IF n = 0 THEN <<65533>> \o DecodeUtf8(Tail(b))
             ELSE IF Len(b) < 2 THEN <<65533>>
             ELSE IF ~SecondOk(b[1], b[2])
                  THEN <<65533>> \o DecodeUtf8(Tail(b))
             ELSE IF n = 2
                  THEN <<(b[1] - 192) * 64 + (b[2] - 128)>>
                       \o DecodeUtf8(SubSeq(b, 3, Len(b)))
             ELSE IF Len(b) < 3 THEN <<65533>>
             ELSE IF ~(b[3] \in 128..191)
                  THEN <<65533>> \o DecodeUtf8(SubSeq(b, 3, Len(b)))
             ELSE IF n = 3
                  THEN <<(b[1] - 224) * 4096 + (b[2] - 128) * 64 + (b[3] - 128)>>
                       \o DecodeUtf8(SubSeq(b, 4, Len(b)))
             ELSE IF Len(b) < 4 THEN <<65533>>
             ELSE IF ~(b[4] \in 128..191)
                  THEN <<65533>> \o DecodeUtf8(SubSeq(b, 4, Len(b)))
             ELSE <<(b[1] - 240) * 262144 + (b[2] - 128) * 4096
                    + (b[3] - 128) * 64 + (b[4] - 128)>>
                  \o DecodeUtf8(SubSeq(b, 5, Len(b)))

RECURSIVE DecodeUnits(_, _)
\* the 16-bit units of a UTF-16 text, big-endian when be
DecodeUnits(b, be) ==
    IF b = << >> THEN << >>
    ELSE IF Len(b) = 1 THEN <<65533>>
    ELSE LET u == IF be THEN 256 * b[1] + b[2] ELSE b[1] + 256 * b[2]
         IN  IF u < 55296 \/ u > 57343
             THEN <<u>> \o DecodeUnits(SubSeq(b, 3, Len(b)), be)
             ELSE IF u >= 56320
                  THEN <<65533>> \o DecodeUnits(SubSeq(b, 3, Len(b)), be)
             ELSE IF Len(b) < 4 THEN <<65533>>
             ELSE LET v == IF be THEN 256 * b[3] + b[4] ELSE b[3] + 256 * b[4]
                  IN  IF 56320 <= v /\ v <= 57343
                      THEN <<65536 + (u - 55296) * 1024 + (v - 56320)>>
                           \o DecodeUnits(SubSeq(b, 5, Len(b)), be)
                      ELSE <<65533>>
                           \o DecodeUnits(SubSeq(b, 3, Len(b)), be)

\* bytes.decode("utf-16", errors="replace"): a byte order mark is taken off
\* and obeyed, little-endian without one
DecodeUtf16(b) ==
    IF Len(b) >= 2 /\ b[1] = 255 /\ b[2] = 254
    THEN DecodeUnits(SubSeq(b, 3, Len(b)), FALSE)
    ELSE IF Len(b) >= 2 /\ b[1] = 254 /\ b[2] = 255
    THEN DecodeUnits(SubSeq(b, 3, Len(b)), TRUE)
    ELSE DecodeUnits(b, FALSE)

\* non_ascii_pattern8.sub("", buff)
non_ascii_pattern8(buff) == SelectSeq(buff, LAMBDA c : c < 127 \/ c > 255)

\* non_ascii_pattern16.sub("", buff)
non_ascii_pattern16(buff) == SelectSeq(buff, LAMBDA c : c < 127 \/ c > 65535)

\* table_cleanup.sub(" ", buff)
table_cleanup(buff) ==
    [i \in 1..Len(buff) |-> IF 1 <= buff[i] /\ buff[i] <= 8 THEN 32 ELSE buff[i]]

RECURSIVE strip_pattern(_)
\* strip_pattern.sub("\r\n", buff)
strip_pattern(buff) ==
    IF buff = << >> THEN << >>
    ELSE IF buff[1] = 13 THEN <<13, 10>> \o strip_pattern(Tail(buff))
    ELSE <<buff[1]>> \o strip_pattern(Tail(buff))

\* lines 56-62: a text that holds no match of hyperlink_pattern is returned
\* as it is.  A match needs \x13, the letters of HYPERLINK, two quotes,
\* \x14 and \x15; no text of this model is that long.
_clean_hyperlinks(buff) == buff

\* chr(c) for the code points the texts of the model decode to; U+0000 and
\* U+FFFD are written as escapes, neither is a word character or a space
Chr(c) ==
    CASE c = 97 -> "a" [] c = 98 -> "b" [] c = 99 -> "c" [] c = 100 -> "d"
      [] c = 0 -> "\\x00" [] c = 65533 -> "\\ufffd"

RECURSIVE Split(_, _, _)
\* text.split(), which splits at \t \n \v \f \r, \x1c-\x1f and the space:
\* word is the token being read, words the tokens read
Split(text, word, words) ==
    IF text = << >>
    THEN IF word = << >> THEN words ELSE Append(words, word)
    ELSE IF text[1] \in (9..13) \cup (28..32)
    THEN Split(Tail(text), << >>,
               IF word = << >> THEN words ELSE Append(words, word))
    ELSE Split(Tail(text), Append(word, Chr(text[1])), words)

\* struct.pack("<I", n) and the like: n in k bytes, lowest first
LE(n, k) == [i \in 1..k |-> (n \div (256 ^ (i - 1))) % 256]

\* n bytes of padding
Zeros(n) == [i \in 1..n |-> 0]

\* the twelve bytes extract_text unpacks
Header(magic, version) == LE(magic, 2) \o LE(version, 2) \o Zeros(6) \o Zeros(2)

\* a Word 95 stream: the two offsets at 0x18, the text from byte 32 on
Word95Stream(magic, version, text_start, text_end, text) ==
    Header(magic, version) \o Zeros(12)
        \o LE(text_start, 4) \o LE(text_end, 4) \o text

\* bytes of a text: a letter, CR, a table mark, DEL, a lone continuation
\* byte, and the two bytes of U+00E9 in UTF-8
TextBytes == {97, 13, 5, 127, 128, 195, 169}

MaxText == 3

\* Word 95 streams with every text, start and end
Word95Docs(texts) ==
    { [WordDocument |-> Word95Stream(42476, 101, 32 + v[1], 32 + Len(t) + v[2], t),
       Table1 |-> None, Table0 |-> None] :
          t \in texts, v \in {<<0, 0>>, <<1, 0>>, <<0, -1>>, <<0, 2>>} }
    \cup
    \* every magic word with every version
    { [WordDocument |-> Word95Stream(m, v, 32, 34, <<97, 13>>),
       Table1 |-> None, Table0 |-> None] :
          m \in {42476, 42460, 42477, 60581, 0},
          v \in {100, 101, 102, 103, 104, 105, 192, 193} }
    \cup
    \* streams cut short of the header or of the two offsets
    { [WordDocument |-> SubSeq(Word95Stream(m, 101, 32, 33, <<97>>), 1, k),
       Table1 |-> None, Table0 |-> None] :
          m \in {42476, 42460, 0}, k \in {0, 1, 2, 4, 11, 12, 31} }

MaxPieces == 2

MaxRun == 2

\* the runs of a piece table: a length in characters and the storage
PieceLists ==
    SeqsUpTo([len : 1..MaxRun, compressed : BOOLEAN], MaxPieces)

RECURSIVE Concat(_)
Concat(ss) == IF ss = << >> THEN << >> ELSE ss[1] \o Concat(Tail(ss))

\* the character at position k of the text of a Word 97 stream
CharAt(k) == <<97, 98, 13, 99, 5, 100>>[(k % 6) + 1]

RECURSIVE CpOf(_, _)
\* cp_list[i]: the characters of the first i runs
CpOf(pieces, i) ==
    IF i = 0 THEN 0 ELSE CpOf(pieces, i - 1) + pieces[i].len

RECURSIVE BytesBefore(_, _)
\* the bytes the runs before run i take in the WordDocument stream
BytesBefore(pieces, i) ==
    IF i = 1 THEN 0
    ELSE BytesBefore(pieces, i - 1)
         + (IF pieces[i - 1].compressed THEN 1 ELSE 2) * pieces[i - 1].len

\* the stored text of the runs, one byte a character in a compressed run
\* and two in the others
TextOf(pieces) ==
    Concat([i \in 1..Len(pieces) |->
               Concat([k \in 1..pieces[i].len |->
                          IF pieces[i].compressed
                          THEN <<CharAt(CpOf(pieces, i - 1) + k - 1)>>
                          ELSE <<CharAt(CpOf(pieces, i - 1) + k - 1), 0>>])])

\* a Word 97 WordDocument stream: count at 62, the eight sizes from 76 on,
\* clx_offset and clx_size behind the skipped structures, then the text
Word97Stream(version, count, text_size, foot_size, clx_offset, pieces) ==
    Header(42476, version) \o Zeros(50) \o LE(count, 2) \o Zeros(12)
        \o LE(text_size, 4) \o LE(foot_size, 4) \o Zeros(24)
        \o Zeros(222 + 4 * count)
        \o LE(clx_offset, 4) \o Zeros(4) \o TextOf(pieces)

\* a table stream: the clx at clx_offset with its marker and size, the cp
\* values, then one 8-byte entry a run holding its fc; text_base is where
\* the text starts in the WordDocument stream
TableStream(clx_offset, marker, size, text_base, pieces) ==
    Zeros(clx_offset) \o <<marker>> \o LE(size, 2) \o Zeros(2)
        \o Concat([i \in 1..(Len(pieces) + 1) |-> LE(CpOf(pieces, i - 1), 4)])
        \o Concat([i \in 1..Len(pieces) |->
                      LET at == text_base + BytesBefore(pieces, i)
                      IN  Zeros(2)
                          \o LE(IF pieces[i].compressed
                                THEN 1073741824 + 2 * at ELSE at, 4)
                          \o Zeros(2)])

\* piece tables of every shape, with the declared size of the table and the
\* declared sizes of the text varied around the true ones
Word97Docs(lists) ==
    UNION { LET n == Len(pieces)
                total == CpOf(pieces, n)
            IN  { [WordDocument |-> Word97Stream(193, 0, v[2], v[3], 0, pieces),
                   Table1 |-> Some(TableStream(0, 2, v[1], 338, pieces)),
                   Table0 |-> None] :
                      v \in {0, 3, 4 * (n + 1), 12 * n + 4,
                             4 * (n + 1) + 8 * MaxPieces}
                            \X ({total, total + 1, CpOf(pieces, IF n = 0 THEN 0 ELSE 1)}
                                \cup {c \in {total - 2} : c >= 0})
                            \X {0, 1} } :
            pieces \in lists }
    \cup
    \* one document with its table stream under either name or missing, cut
    \* short or not, with and without the marker, at two places
    LET pieces == <<[len |-> 2, compressed |-> TRUE],
                    [len |-> 1, compressed |-> FALSE]>>
    IN  { [WordDocument |-> Word97Stream(version, count, 3, 0, clx_offset, pieces),
           Table1 |-> IF has1
                      THEN Some(SubSeq(TableStream(clx_offset, marker, 28,
                                                   338 + 4 * count, pieces),
                                       1, clx_offset + 33 - cut))
                      ELSE None,
           Table0 |-> IF has0
                      THEN Some(TableStream(clx_offset, marker, 28,
                                            338 + 4 * count, pieces))
                      ELSE None] :
              version \in {193, 217}, count \in {0, 1}, clx_offset \in {0, 3},
              marker \in {2, 1}, has1 \in BOOLEAN, has0 \in BOOLEAN,
              cut \in {0, 4, 32} }

\* lines 64-73
_process_word95(doc_stream) ==
    IF ~Fits(doc_stream, 24, 8) THEN Raise("struct.error")
    ELSE LET text_start == UInt(doc_stream, 24, 4)
             text_end   == UInt(doc_stream, 28, 4)
             buff == DecodeUtf8(Slice(doc_stream, text_start, text_end))
         IN  Ok(strip_pattern(_clean_hyperlinks(
                    table_cleanup(non_ascii_pattern8(buff)))), << >>)

\* lines 164-187; the record also tells what was read of doc_stream
_process_block97(text_offset, cp, next_cp, compressed, doc_stream) ==
    IF compressed
    THEN LET offset == text_offset \div 2
             last == offset + next_cp - cp - 1
             buff == DecodeUtf8(Slice(doc_stream, offset, last))
         IN  [offset |-> offset, nbytes |-> last - offset,
              compressed |-> TRUE, cp |-> cp, next_cp |-> next_cp,
              buff |-> _clean_hyperlinks(table_cleanup(non_ascii_pattern8(buff)))]
    ELSE LET last == text_offset + 2 * (next_cp - cp)
             buff == DecodeUtf16(Slice(doc_stream, text_offset, last))
         IN  [offset |-> text_offset, nbytes |-> last - text_offset,
              compressed |-> FALSE, cp |-> cp, next_cp |-> next_cp,
              buff |-> table_cleanup(non_ascii_pattern16(_clean_hyperlinks(buff)))]

RECURSIVE ReadCpList(_, _, _, _, _, _)
\* lines 137-144: i is the loop variable when the loop is left, -1 when the
\* body never ran
ReadCpList(table_stream, offset, i, n, final_cp, cp_list) ==
    IF i = n
    THEN [raised |-> FALSE, cp_list |-> cp_list, offset |-> offset, i |-> i - 1]
    ELSE IF ~Fits(table_stream, offset, 4)
    THEN [raised |-> TRUE, cp_list |-> cp_list, offset |-> offset, i |-> i]
    ELSE LET cp == UInt(table_stream, offset, 4)
         IN  IF cp = final_cp
             THEN [raised |-> FALSE, cp_list |-> Append(cp_list, cp),
                   offset |-> offset + 4, i |-> i]
             ELSE ReadCpList(table_stream, offset + 4, i + 1, n, final_cp,
                             Append(cp_list, cp))

RECURSIVE ReadBlocks(_, _, _, _, _, _)
\* lines 150-160; the runs read so far, None when unpack_from raised
ReadBlocks(table_stream, doc_stream, offset, i, cp_list, runs) ==
    IF i > Len(cp_list) - 1 THEN Some(runs)
    ELSE IF ~Fits(table_stream, offset, 6) THEN None
    ELSE LET fc == UInt(table_stream, offset + 2, 4)
             stream_offset == fc % 1073741824
             compressed == (fc \div 1073741824) % 2 = 1
             run == _process_block97(stream_offset, cp_list[i], cp_list[i + 1],
                                     compressed, doc_stream)
         IN  ReadBlocks(table_stream, doc_stream, offset + 8, i + 1, cp_list,
                        Append(runs, run))

RECURSIVE Buff(_)
\* buff after the blocks were appended in turn
Buff(runs) == IF runs = << >> THEN << >> ELSE runs[1].buff \o Buff(Tail(runs))

\* lines 75-162
_process_word97(document) ==
    LET doc_stream == document.WordDocument
    IN  IF document.Table1 = None /\ document.Table0 = None
        THEN Raise("ReaderError('No Table stream found!')")
        ELSE IF ~Fits(doc_stream, 62, 2) \/ ~Fits(doc_stream, 64, 44)
        THEN Raise("struct.error")
        ELSE
        LET count == UInt(doc_stream, 62, 2)
            sizes == [k \in 1..8 |-> UInt(doc_stream, 76 + 4 * (k - 1), 4)]
            sum == sizes[1] + sizes[2] + sizes[3] + sizes[4]
                   + sizes[5] + sizes[6] + sizes[7] + sizes[8]
            final_cp == IF \E k \in 2..8 : sizes[k] # 0 THEN sum + 1 ELSE sizes[1]
            offset == 62 + 2 + count * 4 + (66 * 4) + 2
        IN  IF ~Fits(doc_stream, offset, 8) THEN Raise("struct.error")
            ELSE
            LET clx_offset == UInt(doc_stream, offset, 4)
                table_stream == IF document.Table1 # None
                                THEN document.Table1[1]
                                ELSE document.Table0[1]
            IN  IF ~Fits(table_stream, clx_offset, 3) THEN Raise("struct.error")
                ELSE IF UInt(table_stream, clx_offset, 1) # 2
                THEN Raise("ReaderError('Not a valid clxt in the table stream')")
                ELSE
                LET size == UInt(table_stream, clx_offset + 1, 2)
                    n == size \div 4
                    r == ReadCpList(table_stream, clx_offset + 5, 0, n,
                                    final_cp, << >>)
                IN  IF r.raised THEN Raise("struct.error")
                    ELSE IF n = 0 THEN Raise("UnboundLocalError")
                    ELSE IF r.i = n - 1
                    THEN Raise("ReaderError('Parse error - doc file has no final cp')")
                    ELSE LET runs == ReadBlocks(table_stream, doc_stream,
                                                r.offset, 1, r.cp_list, << >>)
                         IN  IF runs = None THEN Raise("struct.error")
                             ELSE Ok(strip_pattern(Buff(runs[1])), runs[1])

\* extract_text without the test of the magic word (lines 41-42)
extract_text_any_magic(document) ==
    LET doc_stream == document.WordDocument
    IN  IF Len(doc_stream) < 12 THEN Raise("struct.error")
        ELSE LET version == UInt(doc_stream, 2, 2)
             IN  IF version < 101
                 THEN Raise("ReaderError('Very old doc file - cant handle before Word 95')")
                 ELSE IF version = 101 \/ version \in 103..104
                 THEN _process_word95(doc_stream)
                 ELSE IF version >= 193
                 THEN _process_word97(document)
                 ELSE Raise("ReaderError('Unknown version of Word')")

\* lines 34-53
extract_text(document) ==
    LET doc_stream == document.WordDocument
    IN  IF Len(doc_stream) < 12 THEN Raise("struct.error")
        ELSE LET magic == UInt(doc_stream, 0, 2)
                 version == UInt(doc_stream, 2, 2)
             IN  IF magic # 42476 /\ magic # 42460
                 THEN Raise("ReaderError('Invalid format - not a Word doc file')")
                 ELSE IF version < 101
                 THEN Raise("ReaderError('Very old doc file - cant handle before Word 95')")
                 ELSE IF version = 101 \/ version \in 103..104
                 THEN _process_word95(doc_stream)
                 ELSE IF version >= 193
                 THEN _process_word97(document)
                 ELSE Raise("ReaderError('Unknown version of Word')")

InitDoc ==
    /\ ole \in Word95Docs(SeqsUpTo(TextBytes, MaxText)) \cup Word97Docs(PieceLists)
    /\ dRet = None
    /\ dPc = "call"
    /\ LoadIdle
    /\ NameIdle
    /\ ReportIdle
    /\ ParseIdle
    /\ BowIdle
    /\ CorpusIdle

\* bag_of_words.py 91-103 on an opened container: extract_text, then the
\* split and the count, or the except branch
ParseDocText ==
    /\ dPc = "call"
    /\ LET r == extract_text(ole)
       IN  dRet' = Some([extract |-> r,
                         ret |-> IF r.err # None
                                 THEN <<None, r.err>>
                                 ELSE parse_doc_text(
                                          [fault |-> FALSE,
                                           words |-> Split(r.text[1], << >>, << >>)])])
    /\ dPc' = "ret"
    /\ UNCHANGED <<ole, loadVars, nameVars, reportVars, parseVars, bowVars,
                   corpusVars>>

NextDoc == ParseDocText

SpecDoc == InitDoc /\ [][NextDoc]_vars

(***************************************************************************)
(* SpecName: FilenameTuple.__init__ (bag_of_words.py 106-120) on one entry *)
(* of os.listdir.  pathlib works on the name as a string: stem cuts the    *)
(* last suffix only, suffixes lists every dot-led piece after the first.   *)
(***************************************************************************)
NameChars == {"5", "0", ".", "t", "g"}

DigitChars == {"0", "1", "2", "3", "4", "5", "6", "7", "8", "9"}

MaxNameLen == 5

\* a directory entry is never "", "." or ".."
ListedNames ==
    SeqsUpTo(NameChars, MaxNameLen) \ {<< >>, <<".">>, <<".", ".">>}

\* str.rfind(c) + 1: the last position of c in s, 0 when there is none
RFind(s, c) ==
    IF \E i \in 1..Len(s) : s[i] = c
    THEN CHOOSE i \in 1..Len(s) :
             s[i] = c /\ \A j \in (i + 1)..Len(s) : s[j] # c
    ELSE 0

\* str.find(c) + 1
Find(s, c) ==
    IF \E i \in 1..Len(s) : s[i] = c
    THEN CHOOSE i \in 1..Len(s) : s[i] = c /\ \A j \in 1..(i - 1) : s[j] # c
    ELSE 0

RECURSIVE LStrip(_, _)
\* str.lstrip(c)
LStrip(s, c) == IF s # << >> /\ s[1] = c THEN LStrip(Tail(s), c) ELSE s

\* PurePath.suffix: the last dot counts unless it leads or ends the name
suffix(name) ==
    LET i == RFind(name, ".")
    IN  IF 1 < i /\ i < Len(name)
        THEN SubSeq(name, i, Len(name))
        ELSE << >>

\* PurePath.stem
stem(name) ==
    LET i == RFind(name, ".")
    IN  IF 1 < i /\ i < Len(name)
        THEN SubSeq(name, 1, i - 1)
        ELSE name

\* "".join(PurePath.suffixes): the pieces "." + s for s in
\* name.lstrip(".").split(".")[1:] put together again, nothing for a name
\* that ends with a dot
joined_suffixes(name) ==
    IF name[Len(name)] = "."
    THEN << >>
    ELSE LET n == LStrip(name, ".")
             i == Find(n, ".")
         IN  IF i = 0 THEN << >> ELSE SubSeq(n, i, Len(n))

\* PurePath.with_suffix(".json") of a name
with_suffix(name, new_suffix) ==
    SubSeq(name, 1, Len(name) - Len(suffix(name))) \o new_suffix

DigitValue(c) ==
    CASE c = "0" -> 0 [] c = "1" -> 1 [] c = "2" -> 2 [] c = "3" -> 3
      [] c = "4" -> 4 [] c = "5" -> 5 [] c = "6" -> 6 [] c = "7" -> 7
      [] c = "8" -> 8 [] c = "9" -> 9

RECURSIVE DecimalValue(_)
DecimalValue(s) ==
    IF s = << >> THEN 0
    ELSE 10 * DecimalValue(SubSeq(s, 1, Len(s) - 1)) + DigitValue(s[Len(s)])

\* int(s) for a string of digits, dots and letters: None stands for the
\* ValueError
int(s) ==
    IF s # << >> /\ \A i \in 1..Len(s) : s[i] \in DigitChars
    THEN Some(DecimalValue(s))
    ELSE None

\* <<the tuple, None>> or <<None, the exception>>
FilenameTuple(name) ==
    LET material_id == int(stem(name))
    IN  IF material_id = None
        THEN <<None, Some("ValueError")>>
        ELSE <<Some([material_id |-> material_id[1],
                    extension   |-> joined_suffixes(name),
                    doc_path    |-> name,
                    bow_path    |-> with_suffix(name, <<".", "j", "s", "o", "n">>)]),
              None>>

InitName ==
    /\ doc_filename \in ListedNames
    /\ filename_tuple = None
    /\ nPc = "call"
    /\ LoadIdle
    /\ DocIdle
    /\ ReportIdle
    /\ ParseIdle
    /\ BowIdle
    /\ CorpusIdle

Construct ==
    /\ nPc = "call"
    /\ filename_tuple' = FilenameTuple(doc_filename)
    /\ nPc' = "ret"
    /\ UNCHANGED <<doc_filename, loadVars, docVars, reportVars, parseVars, bowVars,
                   corpusVars>>

NextName == Construct

SpecName == InitName /\ [][NextName]_vars

\* ---- C1 ----------------------------------------------------------------
\* C1: a process_doc whose artifact existed when it was invoked never calls
\* load_document, submits no parse, writes nothing, and returns
\* (material_id, True, ""); so does every document of a second run whose
\* artifact the first run wrote.
C1_ExistingArtifactShortCircuits ==
    \A f \in DOMAIN task :
        task[f].existed =>
            /\ task[f].reads = 0
            /\ task[f].submits = 0
            /\ task[f].writes = 0
            /\ task[f].pc \in {"exists", "done", "cancelled"}
            /\ (task[f].pc = "done" =>
                   task[f].outcome = <<f.material_id, TRUE, "">>)

\* in a second run, a document whose artifact an earlier run wrote in full
\* has returned success without a read
C1_Witness ==
    /\ rerun
    /\ \E f \in DOMAIN task :
           /\ task[f].existed
           /\ task[f].pc = "done"
           /\ task[f].outcome = <<f.material_id, TRUE, "">>
           /\ task[f].reads = 0
           /\ fs[bow_path(f)].data # << >>

\* ---- C2 ----------------------------------------------------------------
\* no other file of the directory has the same bow_path
OwnArtifact(f) ==
    \A g \in dir : bow_path(g) = bow_path(f) => g = f

\* C2: an artifact that an existence check takes for done holds the complete
\* TermDictionary: whenever a document that alone owns its bow_path has
\* returned success, its artifact is not an empty or unfinished file, in
\* runs that were cancelled in save_bow as in any other.
C2_OnlyCompleteArtifactsCountAsDone ==
    \A f \in DOMAIN task :
        (OwnArtifact(f) /\ task[f].pc = "done" /\ task[f].outcome[2]) =>
            fs[bow_path(f)].data # << >>

\* ---- C3 ----------------------------------------------------------------
\* C3: an extraction that accepts no term writes no artifact: every artifact
\* written holds at least one term, and no process_doc goes on to save_bow
\* with a dictionary of zero terms.
C3_EmptyVocabularyNotPersisted ==
    /\ \A p \in Ids :
           (fs[p].exists /\ fs[p].data # << >>) =>
               Len(json_loads(fs[p].data).terms) >= 1
    /\ \A f \in DOMAIN task :
           task[f].pc \in {"save_open", "save_write"} =>
               json_loads(task[f].ret[1][1]).num_terms >= 1

\* ---- C4 ----------------------------------------------------------------
\* C4: no failure confined to one document aborts the batch: no process_doc
\* raises, whatever fails for its document, and build_bags_of_words is
\* never left by an exception of one of them.
C4_FailuresNeverAbortBatch ==
    /\ batch \notin {"raising", "raised"}
    /\ \A f \in DOMAIN task : task[f].pc # "raised"

\* ---- C5 ----------------------------------------------------------------
\* C5: every TermDictionary a parse handler returns has num_terms equal to
\* the sum of its counts, every count at least 1, and no empty-string key.
C5_TermDictionaryInvariant ==
    (pPc = "ret" /\ pRet[1] # None) =>
        LET d == pRet[1][1]
        IN  /\ pRet[2] = None
            /\ d.num_terms = SumValues(d.terms)
            /\ \A i \in 1..Len(d.terms) :
                  /\ d.terms[i][2] >= 1
                  /\ d.terms[i][1] # << >>
            /\ Cardinality(DictKeySet(d.terms)) = Len(d.terms)

\* a handler returned a dictionary that counts a repeated term and that
\* left out a token the normalizer rejected
C5_Witness ==
    /\ pPc = "ret"
    /\ pRet[1] # None
    /\ \E i \in 1..Len(pRet[1][1].terms) : pRet[1][1].terms[i][2] >= 2
    /\ pRet[1][1].num_terms < Len(pData.words)

\* ---- C6 ----------------------------------------------------------------
\* C6: in the CorpusInverseVocabulary that build_corpus_vocabulary wrote,
\* every doc_frequency lies between 1 and num_docs.
C6_DocFrequencyBounds ==
    invVocab # None =>
        \A i \in 1..Len(invVocab[1].doc_frequency) :
            /\ invVocab[1].doc_frequency[i][2] >= 1
            /\ invVocab[1].doc_frequency[i][2] <= invVocab[1].num_docs

\* a corpus of several documents was aggregated, with a term of every
\* document, a term of a single one, and a term counted more often in one
\* document than there are documents
C6_Witness ==
    /\ invVocab # None
    /\ invVocab[1].num_docs >= 2
    /\ \E i \in 1..Len(invVocab[1].doc_frequency) :
           invVocab[1].doc_frequency[i][2] = invVocab[1].num_docs
    /\ \E i \in 1..Len(invVocab[1].doc_frequency) :
           invVocab[1].doc_frequency[i][2] = 1
    /\ \E i \in 1..Len(vocab[1].terms) :
           vocab[1].terms[i][2] > invVocab[1].num_docs

\* ---- C7 ----------------------------------------------------------------
\* the dictionaries of the artifact directory
C7_Loaded == {r \in Rows : bows[r].exists}

C7_TermsOf(r) == json_loads(bows[r].data).terms

C7_AllTerms == UNION {DictKeySet(C7_TermsOf(r)) : r \in C7_Loaded}

RECURSIVE C7_Total(_, _)
\* the occurrences of t in the documents 1..n
C7_Total(t, n) ==
    IF n = 0 THEN 0
    ELSE C7_Total(t, n - 1)
         + (IF bows[n].exists THEN DictGet(C7_TermsOf(n), t, 0) ELSE 0)

\* C7: doc_frequency[t] is the number of dictionaries that have t as a key,
\* terms[t] the sum of t's counts, num_docs the number of dictionaries,
\* num_terms the number of distinct terms, and both maps have exactly the
\* terms of the corpus as keys, each once.
C7_AggregationIsExact ==
    invVocab # None =>
        LET df == invVocab[1].doc_frequency
            tf == vocab[1].terms
        IN  /\ invVocab[1].num_docs = Cardinality(C7_Loaded)
            /\ vocab[1].num_terms = Cardinality(C7_AllTerms)
            /\ DictKeySet(df) = C7_AllTerms
            /\ DictKeySet(tf) = C7_AllTerms
            /\ Len(df) = Cardinality(C7_AllTerms)
            /\ Len(tf) = Cardinality(C7_AllTerms)
            /\ \A t \in C7_AllTerms :
                  /\ DictAt(df, t) =
                         Cardinality({r \in C7_Loaded : DictHas(C7_TermsOf(r), t)})
                  /\ DictAt(tf, t) = C7_Total(t, MaxDocs)

\* the corpus {a:3,b:1}, {a:1,c:2}, {a:2} was aggregated to
\* doc_frequency {a:3,b:1,c:1}, num_docs 3 and terms {a:6,b:1,c:2}
C7_Witness ==
    /\ invVocab # None
    /\ \A r \in 1..3 : bows[r].exists
    /\ C7_TermsOf(1) = <<<<TokA, 3>>, <<TokB, 1>>>>
    /\ C7_TermsOf(2) = <<<<TokA, 1>>, <<TokC, 2>>>>
    /\ C7_TermsOf(3) = <<<<TokA, 2>>>>
    /\ invVocab[1].num_docs = 3
    /\ invVocab[1].doc_frequency = <<<<TokA, 3>>, <<TokB, 1>>, <<TokC, 1>>>>
    /\ vocab[1].terms = <<<<TokA, 6>>, <<TokB, 1>>, <<TokC, 2>>>>

\* ---- C8 ----------------------------------------------------------------
\* the score compute_tf_idf gives term t of row r's document
C8_Score(r, t) ==
    DictAt(compute_tf_idf(invVocab[1], json_loads(bows[r].data)), t)

\* the terms of row r's document that are no stopword and reach the threshold
C8_Eligible(r) ==
    {t \in DictKeySet(C7_TermsOf(r)) :
        t \notin stopWords /\ C8_Score(r, t) >= TF_IDF_SCORE_THRESHOLD}

C8_Min(a, b) == IF a <= b THEN a ELSE b

\* C8: the keyword list of a document is the first min(K, m) of its m
\* non-stopword terms that reach the threshold, by descending score: it has
\* min(K, m) entries, all of them such terms and no term twice, the scores
\* never increase along the list, and no such term left out scores higher
\* than one in the list.
C8_KeywordsAreTopRanked ==
    \A r \in Rows :
        (cPc \in {"kw", "done"} /\ kws[r] # None /\ bows[r].exists) =>
            LET l == kws[r][1].kws
                m == Cardinality(C8_Eligible(r))
            IN  /\ Len(l) = C8_Min(cfg.num_max_keywords, m)
                /\ \A i \in 1..Len(l) : l[i] \in C8_Eligible(r)
                /\ \A i, j \in 1..Len(l) :
                       i < j => /\ l[i] # l[j]
                                /\ C8_Score(r, l[i]) >= C8_Score(r, l[j])
                /\ \A t \in C8_Eligible(r) :
                       (\A i \in 1..Len(l) : l[i] # t) =>
                           \A i \in 1..Len(l) : C8_Score(r, l[i]) >= C8_Score(r, t)

\* a document with more eligible terms than K got exactly K keywords, of
\* different scores, and a term below the threshold stayed out
C8_Witness ==
    /\ cPc = "kw"
    /\ \E r \in Rows :
           /\ kws[r] # None
           /\ bows[r].exists
           /\ Cardinality(C8_Eligible(r)) > cfg.num_max_keywords
           /\ Len(kws[r][1].kws) = cfg.num_max_keywords
           /\ \E i, j \in 1..Len(kws[r][1].kws) :
                  C8_Score(r, kws[r][1].kws[i]) > C8_Score(r, kws[r][1].kws[j])
    /\ \E r \in Rows :
           /\ kws[r] # None
           /\ bows[r].exists
           /\ \E t \in DictKeySet(C7_TermsOf(r)) :
                  /\ t \notin stopWords
                  /\ C8_Score(r, t) > 0
                  /\ C8_Score(r, t) < TF_IDF_SCORE_THRESHOLD

\* ---- C9 ----------------------------------------------------------------
\* C9: no keyword list holds a term of the stopword set handed to
\* generate_keywords, whatever the term's score.
C9_NoStopwordIsKeyword ==
    \A r \in Rows :
        kws[r] # None =>
            \A i \in 1..Len(kws[r][1].kws) : kws[r][1].kws[i] \notin stopWords

\* a document got keywords while a stopword among its terms scores above the
\* threshold and above every keyword of the list
C9_Witness ==
    \E r \in Rows :
        /\ kws[r] # None
        /\ bows[r].exists
        /\ kws[r][1].kws # << >>
        /\ \E t \in DictKeySet(C7_TermsOf(r)) \cap stopWords :
               /\ C8_Score(r, t) >= TF_IDF_SCORE_THRESHOLD
               /\ \A i \in 1..Len(kws[r][1].kws) :
                      C8_Score(r, t) > C8_Score(r, kws[r][1].kws[i])

\* ---- C10 ---------------------------------------------------------------
\* C10: load_stopwords returns min(N, number of distinct corpus terms) terms
\* of the corpus vocabulary, and no term left out has a higher total count
\* than a term returned.
C10_StopwordsAreTopN ==
    cPc \in {"kw", "done"} =>
        LET tf == vocab[1].terms
        IN  /\ Cardinality(stopWords) = C8_Min(cfg.num_stop_words, Len(tf))
            /\ stopWords \subseteq DictKeySet(tf)
            /\ \A in \in stopWords :
                   \A out \in DictKeySet(tf) \ stopWords :
                       DictAt(tf, out) <= DictAt(tf, in)

\* fewer stopwords than corpus terms were asked for, and a term left out is
\* rarer than every stopword
C10_Witness ==
    /\ cPc = "kw"
    /\ cfg.num_stop_words < Len(vocab[1].terms)
    /\ Cardinality(stopWords) = cfg.num_stop_words
    /\ \E out \in DictKeySet(vocab[1].terms) \ stopWords :
           \A in \in stopWords : DictAt(vocab[1].terms, out) < DictAt(vocab[1].terms, in)

\* ---- C11 ---------------------------------------------------------------
\* C11: for a row whose artifact <material_id>.json does not exist,
\* get_keywords_for_row returns the empty keyword string without opening
\* any file and without raising, and the keyword stage goes on with the
\* other rows (it never fails once the vocabulary has been built).
C11_MissingArtifactGivesEmptyKeywords ==
    /\ \A r \in Rows :
           (kws[r] # None /\ ~bows[r].exists) =>
               /\ kws[r][1].ret = << >>
               /\ kws[r][1].kws = << >>
               /\ kws[r][1].reads = 0
    /\ (cPc = "failed" => invVocab = None)

\* the report is complete although one row had no artifact, and a row
\* handled after it received keywords from its own artifact
C11_Witness ==
    /\ cPc = "done"
    /\ \E r, q \in Rows :
           /\ r < q
           /\ ~bows[r].exists
           /\ kws[r] # None /\ kws[r][1].ret = << >> /\ kws[r][1].reads = 0
           /\ bows[q].exists
           /\ kws[q] # None /\ kws[q][1].kws # << >> /\ kws[q][1].reads = 1

\* ---- C12 ---------------------------------------------------------------
\* C12: a run of build_bags_of_words that is not cancelled ends by returning
\* exactly one outcome row per input file, each carrying the file's
\* material id and, for a failure, a non-empty reason recorded in the row;
\* no failure of a document is raised out of the run.
C12_OneOutcomeRowPerFile ==
    batch \in {"returned", "raised"} =>
        /\ batch = "returned"
        /\ \A f \in DOMAIN task :
               /\ task[f].pc = "done"
               /\ task[f].outcome # NoOutcome
               /\ task[f].outcome[1] = f.material_id
               /\ (~task[f].outcome[2] => task[f].outcome[3] # "")

\* ---- C17 ---------------------------------------------------------------
\* C17: a token that contains a match of a ban pattern -- "cid:" and a
\* digit, a backslash, "uf" and three word characters, "http://",
\* "https://" or "www." -- anywhere in it is cleaned to the empty string, so
\* it is counted in no TermDictionary: num_terms counts no such token and
\* every key is the stripped form of a token without such a match.
C17_Literals ==
    { <<"h", "t", "t", "p", ":", "/", "/">>,
      <<"h", "t", "t", "p", "s", ":", "/", "/">>,
      <<"w", "w", "w", ".">> }

C17_At(s, i, lit) ==
    /\ i + Len(lit) - 1 <= Len(s)
    /\ SubSeq(s, i, i + Len(lit) - 1) = lit

C17_HasBanMatch(s) ==
    \E i \in 1..Len(s) :
        \/ \E lit \in C17_Literals : C17_At(s, i, lit)
        \/ /\ C17_At(s, i, <<"c", "i", "d", ":">>)
           /\ i + 4 <= Len(s)
           /\ s[i + 4] \in Digits
        \/ /\ C17_At(s, i, <<"\\", "u", "f">>)
           /\ i + 5 <= Len(s)
           /\ \A j \in 3..5 : s[i + j] \in WordChars

C17_BannedTokensAreDropped ==
    /\ \A t \in Tokens : C17_HasBanMatch(t) => cleanup_term(t) = << >>
    /\ (pPc = "ret" /\ pRet[1] # None) =>
           LET words == pData.words
               kept == {i \in 1..Len(words) : ~C17_HasBanMatch(words[i])}
               d == pRet[1][1]
           IN  /\ d.num_terms <= Cardinality(kept)
               /\ \A k \in DictKeySet(d.terms) :
                      \E i \in kept : k = StripEnd(StripStart(words[i]))

\* a handler returned a dictionary for a text holding a token with a ban
\* match inside it (not at its start) next to a token that was counted
C17_Witness ==
    /\ pPc = "ret"
    /\ pRet[1] # None
    /\ \E i, j \in 1..Len(pData.words) :
           /\ C17_HasBanMatch(pData.words[i])
           /\ ~\E pat \in ban_list : MatchAt(pData.words[i], 1, pat)
           /\ ~C17_HasBanMatch(pData.words[j])
    /\ pRet[1][1].num_terms = 1

\* ---- C18 ---------------------------------------------------------------
\* C18: when the batch is cancelled, the shutdown cancels every queued parse
\* submission, no parse starts from then on, the CancelledError reaches the
\* caller only when no worker is parsing any more, and it is re-raised: a
\* cancelled batch never ends as a returned one.
C18_CancellationWaitsForPool ==
    /\ [](batch = "cancelled" => (Parsing = {} /\ Queued = {}))
    /\ [][ /\ (batch = "running" /\ batch' = "shutdown") =>
                  \A f \in dir :
                      /\ task[f].pc = "queued" => task'[f].pc = "cancelled"
                      /\ task[f].pc = "parsing" => task'[f].pc = "parsing"
           /\ batch = "shutdown" =>
                  /\ batch' \in {"shutdown", "cancelled"}
                  /\ \A f \in dir :
                         /\ task'[f].pc = "parsing" => task[f].pc = "parsing"
                         /\ task'[f].pc # "queued"
                         /\ task'[f].submits = task[f].submits
                         /\ (task[f].pc = "parsing" =>
                                task'[f].pc \in {"parsing", "parsed"})
         ]_vars

\* the pool is shutting down: a queued submission has been cancelled while
\* a worker is still parsing another document
C18_Witness ==
    /\ batch = "shutdown"
    /\ \E f, g \in dir :
           /\ task[f].pc = "parsing"
           /\ task[g].pc = "cancelled"
           /\ task[g].submits = 1
           /\ task[g].outcome = NoOutcome

\* ---- C20 ---------------------------------------------------------------
\* C20: for every filename made of an integer, then one or more non-empty
\* extensions each led by a dot, FilenameTuple is constructed, its
\* material_id is that integer and its extension is the whole chain of
\* extensions from the first dot on -- for two or more extensions as well.
C20_Form(name) ==
    LET i == Find(name, ".")
    IN  /\ i > 1
        /\ \A j \in 1..(i - 1) : name[j] \in DigitChars
        /\ name[Len(name)] # "."
        /\ \A j \in 1..(Len(name) - 1) : ~(name[j] = "." /\ name[j + 1] = ".")

C20_MultiPartExtensionParsed ==
    (nPc = "ret" /\ C20_Form(doc_filename)) =>
        LET i == Find(doc_filename, ".")
        IN  /\ filename_tuple[1] # None
            /\ filename_tuple[1][1].material_id =
                   DecimalValue(SubSeq(doc_filename, 1, i - 1))
            /\ filename_tuple[1][1].extension =
                   SubSeq(doc_filename, i, Len(doc_filename))

\* ---- C19 ---------------------------------------------------------------
\* C19: in build_corpus_vocabulary neither frequency map has received any
\* count while a load task is still in flight, every change of the maps is
\* made by build_corpus_vocabulary itself after the gather, and the maps it
\* writes are the folds over the artifacts in listing order, whatever the
\* order in which the loads completed.
C19_FoldsRunAfterAllLoads ==
    /\ [](/\ (invVocab # None \/ vocab # None) => InFlight = {}
          /\ invVocab # None =>
                 invVocab[1] = [num_docs |-> Len(Vocabs),
                                doc_frequency |-> DocFrequency(Vocabs, << >>)]
          /\ vocab # None =>
                 vocab[1].terms = TermFrequency(Vocabs, << >>))
    /\ [][(invVocab' # invVocab \/ vocab' # vocab) =>
              (loads' = loads /\ InFlight = {})]_vars

\* both files are written after loads that completed against the listing
\* order, for documents that do not share all their terms
C19_Witness ==
    /\ cPc = "stop"
    /\ \E i, j \in 1..Len(loads) :
           /\ i < j
           /\ loads[i][1] > loads[j][1]
           /\ DictKeys(loads[i][2].terms) # DictKeys(loads[j][2].terms)
    /\ Len(vocab[1].terms) >= 3

\* ---- C13 ---------------------------------------------------------------
\* C13 as stated: on every WordDocument stream whose magic word is neither
\* 0xA5EC nor 0xA5DC, extract_text raises the "Invalid format - not a Word
\* doc file" error and returns no text, and parse_doc_text returns
\* (None, error).
C13_HasBadMagic ==
    /\ Len(ole.WordDocument) >= 2
    /\ UInt(ole.WordDocument, 0, 2) \notin {42476, 42460}

C13_InvalidFormat == "ReaderError('Invalid format - not a Word doc file')"

C13_BadMagicIsInvalidFormat ==
    (dPc = "ret" /\ C13_HasBadMagic) =>
        /\ dRet[1].extract.text = None
        /\ dRet[1].extract.err = Some(C13_InvalidFormat)
        /\ dRet[1].ret = <<None, Some(C13_InvalidFormat)>>

\* C13, amended: on every such stream extract_text raises and returns no
\* text, and parse_doc_text returns (None, the error raised); the error is
\* the "Invalid format" one whenever the stream holds the twelve bytes of
\* the header, and struct.error when it is shorter.
C13_BadMagicNeverYieldsText ==
    (dPc = "ret" /\ C13_HasBadMagic) =>
        /\ dRet[1].extract.text = None
        /\ dRet[1].extract.err # None
        /\ dRet[1].ret = <<None, dRet[1].extract.err>>
        /\ dRet[1].extract.err =
               IF Len(ole.WordDocument) >= 12
               THEN Some(C13_InvalidFormat)
               ELSE Some("struct.error")

\* a stream with a corrupted magic word whose version and offsets would
\* otherwise be decoded as Word 95 text has been rejected
C13_Witness ==
    /\ dPc = "ret"
    /\ C13_HasBadMagic
    /\ Len(ole.WordDocument) >= 34
    /\ UInt(ole.WordDocument, 2, 2) = 101
    /\ dRet[1].extract.err = Some(C13_InvalidFormat)
    /\ dRet[1].ret[1] = None

\* ---- C14 ---------------------------------------------------------------
\* C14: for a Word 95 stream (version 101, 103 or 104) the text returned is
\* doc_stream[text_start:text_end] taken one byte per character, with each
\* byte 0x01-0x08 turned into a space, each byte 0x7F-0xFF removed and each
\* CR turned into CR LF.
RECURSIVE C14_Normalised(_)
C14_Normalised(bytes) ==
    IF bytes = << >> THEN << >>
    ELSE (IF bytes[1] \in 1..8 THEN <<32>>
          ELSE IF bytes[1] \in 127..255 THEN << >>
          ELSE IF bytes[1] = 13 THEN <<13, 10>>
          ELSE <<bytes[1]>>) \o C14_Normalised(Tail(bytes))

C14_Word95TextIsNormalisedSlice ==
    (/\ dPc = "ret"
     /\ Len(ole.WordDocument) >= 32
     /\ UInt(ole.WordDocument, 0, 2) \in {42476, 42460}
     /\ UInt(ole.WordDocument, 2, 2) \in {101, 103, 104}) =>
        LET text_start == UInt(ole.WordDocument, 24, 4)
            text_end   == UInt(ole.WordDocument, 28, 4)
        IN  dRet[1].extract.text =
                Some(C14_Normalised(Slice(ole.WordDocument, text_start, text_end)))

\* ---- C15 ---------------------------------------------------------------
\* C15: in a Word 97 stream every run between consecutive breakpoints cp
\* and next_cp is read as exactly 2 * (next_cp - cp) bytes when it is
\* stored double-byte and exactly next_cp - cp bytes when it is stored
\* single-byte, the runs are taken in cp order, and the text is their
\* concatenation.
C15_RunsAreReadWhole ==
    (/\ dPc = "ret"
     /\ dRet[1].extract.text # None
     /\ UInt(ole.WordDocument, 2, 2) >= 193) =>
        LET runs == dRet[1].extract.runs
        IN  /\ \A i \in 1..Len(runs) :
                   /\ runs[i].nbytes =
                          (IF runs[i].compressed THEN 1 ELSE 2)
                              * (runs[i].next_cp - runs[i].cp)
                   /\ (i < Len(runs) => runs[i].next_cp = runs[i + 1].cp)
            /\ dRet[1].extract.text[1] = strip_pattern(Buff(runs))

\* ---- C16 ---------------------------------------------------------------
\* C16: when none of the size // 4 cp values of the table equals the final
\* character position computed from the declared sizes -- a table of zero
\* entries included -- _process_word97 raises "Parse error - doc file has
\* no final cp".
C16_Table == IF ole.Table1 # None THEN ole.Table1[1] ELSE ole.Table0[1]

C16_ClxOffset == UInt(ole.WordDocument, 330 + 4 * UInt(ole.WordDocument, 62, 2), 4)

C16_FinalCp ==
    LET size_at(k) == UInt(ole.WordDocument, 76 + 4 * k, 4)
    IN  IF \A k \in 1..7 : size_at(k) = 0
        THEN size_at(0)
        ELSE size_at(0) + size_at(1) + size_at(2) + size_at(3) + size_at(4)
             + size_at(5) + size_at(6) + size_at(7) + 1

\* the stream is a Word 97 one whose table is reached and whose size // 4
\* cp values can all be read
C16_TableIsRead ==
    /\ Len(ole.WordDocument) >= 338
    /\ UInt(ole.WordDocument, 0, 2) \in {42476, 42460}
    /\ UInt(ole.WordDocument, 2, 2) >= 193
    /\ (ole.Table1 # None \/ ole.Table0 # None)
    /\ Fits(ole.WordDocument, 330 + 4 * UInt(ole.WordDocument, 62, 2), 8)
    /\ Fits(C16_Table, C16_ClxOffset, 3)
    /\ C16_Table[C16_ClxOffset + 1] = 2
    /\ Fits(C16_Table, C16_ClxOffset + 5,
            4 * (UInt(C16_Table, C16_ClxOffset + 1, 2) \div 4))

C16_NoCpIsFinal ==
    \A i \in 0..((UInt(C16_Table, C16_ClxOffset + 1, 2) \div 4) - 1) :
        UInt(C16_Table, C16_ClxOffset + 5 + 4 * i, 4) # C16_FinalCp

C16_NoFinalCpIsReported ==
    (dPc = "ret" /\ C16_TableIsRead /\ C16_NoCpIsFinal) =>
        dRet[1].extract.err =
            Some("ReaderError('Parse error - doc file has no final cp')")

(***************************************************************************)
(* C21: whatever the order in which the keyword tasks completed, row i of  *)
(* the written report carries the Material_ID, the Parsing_OK flag and the *)
(* Parsing_Error_Message of row i of parsing_info, and as its              *)
(* Generated_Keywords the string computed from the artifact of that        *)
(* Material_ID (the empty string when it has none).                        *)
(***************************************************************************)
C21_KeywordsOf(material_id) ==
    IF ~bows[material_id].exists
    THEN << >>
    ELSE Join(generate_keywords(invVocab[1], stopWords,
                                json_loads(bows[material_id].data)))

C21_RowsCarryOwnResults ==
    extended_df # None =>
        /\ Len(extended_df[1]) = Len(parsing_info)
        /\ \A i \in 1..Len(parsing_info) :
               LET row == extended_df[1][i]
               IN  /\ row.Material_ID = parsing_info[i][1]
                   /\ row.Parsing_OK = parsing_info[i][2]
                   /\ row.Parsing_Error_Message = parsing_info[i][3]
                   /\ row.Generated_Keywords = C21_KeywordsOf(row.Material_ID)
                   /\ \E k \in 1..Len(loads) :
                          /\ loads[k][1] = i
                          /\ loads[k][2] = row.Generated_Keywords

\* the task of the second row completed first, and the two rows have
\* different keywords
C21_Witness ==
    /\ extended_df # None
    /\ Len(parsing_info) = 2
    /\ loads[1][1] = 2
    /\ extended_df[1][1].Generated_Keywords # << >>
    /\ extended_df[1][2].Generated_Keywords # << >>
    /\ extended_df[1][1].Generated_Keywords # extended_df[1][2].Generated_Keywords

(***************************************************************************)
(* C22: in a run of build_bags_of_words no process_doc task writes its     *)
(* artifact more than once, and no two files of the directory, files of    *)
(* one material id with different extensions included, write to the same   *)
(* artifact path.                                                          *)
(***************************************************************************)
C22_Wrote(f) == task[f].writes >= 1 \/ task[f].pc = "save_write"

C22_ArtifactWrittenOnce ==
    task # << >> =>
        /\ \A f \in dir : task[f].writes <= 1
        /\ \A f, g \in dir :
               (f # g /\ C22_Wrote(f) /\ C22_Wrote(g)) => bow_path(f) # bow_path(g)

\* the part that holds: a task writes at most once, and two tasks that
\* write to one path are files of one material id
C22_OneWritePerTask ==
    task # << >> =>
        /\ \A f \in dir : task[f].writes <= 1
        /\ \A f, g \in dir :
               (f # g /\ C22_Wrote(f) /\ C22_Wrote(g) /\ bow_path(f) = bow_path(g))
                   => (f.material_id = g.material_id /\ f.extension # g.extension)

(***************************************************************************)
(* C23: once the keyword stage is reached, every term of every artifact it *)
(* reads has a document frequency between 1 and num_docs in the inverse    *)
(* vocabulary written by the same run; an artifact of num_terms 0 has no   *)
(* terms, and every TF-IDF score is at least 0.                            *)
(***************************************************************************)
C23_Read == {r \in Rows : bows[r].exists}

C23_KeywordStageInputsAreCovered ==
    cPc \in {"kw", "done"} =>
        \A r \in C23_Read :
            LET doc_vocab == json_loads(bows[r].data)
            IN  /\ \A i \in 1..Len(doc_vocab.terms) :
                       LET t == doc_vocab.terms[i][1]
                       IN  /\ DictHas(invVocab[1].doc_frequency, t)
                           /\ DictAt(invVocab[1].doc_frequency, t) >= 1
                           /\ DictAt(invVocab[1].doc_frequency, t) <= invVocab[1].num_docs
                           /\ doc_vocab.num_terms >= 1
                /\ doc_vocab.num_terms = 0 => doc_vocab.terms = << >>
                /\ \A i \in 1..Len(doc_vocab.terms) :
                       compute_tf_idf(invVocab[1], doc_vocab)[i][2] >= 0

\* the keyword stage read an artifact without terms and one with a term
\* that no other artifact holds, and gave keywords for the latter
C23_Witness ==
    /\ cPc = "done"
    /\ \E r \in C23_Read :
           /\ kws[r][1].reads = 1
           /\ json_loads(bows[r].data).num_terms = 0
    /\ \E r \in C23_Read :
           /\ kws[r][1].reads = 1
           /\ kws[r][1].kws # << >>
           /\ \E i \in 1..Len(json_loads(bows[r].data).terms) :
                  DictAt(invVocab[1].doc_frequency,
                         json_loads(bows[r].data).terms[i][1]) = 1

(***************************************************************************)
(* C24: when one of the size // 4 cp values of the breakpoint table equals *)
(* the expected final character position, at the last index as at any      *)
(* other, _process_word97 does not raise the "no final cp" error and       *)
(* decodes the runs between the breakpoints read up to that value.         *)
(***************************************************************************)
C24_NoFinalCp == "ReaderError('Parse error - doc file has no final cp')"

\* the index of the first cp value that is the final one, -1 without one
C24_FinalIndex ==
    LET n == UInt(C16_Table, C16_ClxOffset + 1, 2) \div 4
        hits == {i \in 0..(n - 1) :
                    UInt(C16_Table, C16_ClxOffset + 5 + 4 * i, 4) = C16_FinalCp}
    IN  IF hits = {} THEN -1
        ELSE CHOOSE i \in hits : \A j \in hits : i <= j

C24_FinalCpFoundIsAccepted ==
    (dPc = "ret" /\ C16_TableIsRead /\ C24_FinalIndex >= 0) =>
        /\ dRet[1].extract.err # Some(C24_NoFinalCp)
        /\ (dRet[1].extract.err = None =>
                Len(dRet[1].extract.runs) = C24_FinalIndex)

\* the part that holds: a final cp found before the last index is accepted
C24_FinalCpBeforeLastIsAccepted ==
    (/\ dPc = "ret"
     /\ C16_TableIsRead
     /\ C24_FinalIndex >= 0
     /\ C24_FinalIndex < (UInt(C16_Table, C16_ClxOffset + 1, 2) \div 4) - 1) =>
        /\ dRet[1].extract.err # Some(C24_NoFinalCp)
        /\ (dRet[1].extract.err = None =>
                Len(dRet[1].extract.runs) = C24_FinalIndex)

(***************************************************************************)
(* C25: when the corpus vocabulary has no more distinct terms than         *)
(* NUM_STOP_WORDS, load_stopwords returns every term of the corpus and     *)
(* every document of the corpus gets an empty keyword list, whatever its   *)
(* TF-IDF scores.                                                          *)
(***************************************************************************)
C25_SmallVocabularyGivesNoKeywords ==
    (cPc \in {"kw", "done"} /\ vocab[1].num_terms <= cfg.num_stop_words) =>
        /\ stopWords = DictKeySet(vocab[1].terms)
        /\ \A r \in Rows : bows[r].exists =>
               DictKeySet(json_loads(bows[r].data).terms) \subseteq stopWords
        /\ \A r \in Rows : kws[r] # None =>
               (kws[r][1].kws = << >> /\ kws[r][1].ret = << >>)

C25_Artifact(words) ==
    [exists |-> TRUE, data |-> json_dumps(CountTerms(words, << >>, 0))]

\* the corpus {a:3, b:1}, {a:1, c:2}, {a:2} under the shipped constants:
\* b scores above the threshold in document 1 and is no keyword of it
C25_Witness ==
    /\ cPc = "done"
    /\ cfg.num_stop_words = NUM_STOP_WORDS
    /\ bows[1] = C25_Artifact(<<TokA, TokA, TokA, TokB>>)
    /\ bows[2] = C25_Artifact(<<TokA, TokC, TokC>>)
    /\ bows[3] = C25_Artifact(<<TokA, TokA>>)
    /\ \A r \in Rows : r > 3 => ~bows[r].exists
    /\ \E i \in 1..2 :
           LET score == compute_tf_idf(invVocab[1], json_loads(bows[1].data))[i]
           IN  score[1] = TokB /\ score[2] >= TF_IDF_SCORE_THRESHOLD
    /\ kws[1][1].reads = 1
    /\ kws[1][1].kws = << >>

(***************************************************************************)
(* C26: under fair scheduling, with reads and parses that end, every run   *)
(* of build_bags_of_words that is not cancelled returns with one outcome   *)
(* tuple for every file of the directory, however many files there are for *)
(* the workers of the pool.                                                *)
(***************************************************************************)
C26_Returned ==
    /\ batch = "returned"
    /\ \A f \in dir : task[f].outcome # NoOutcome

C26_Cancelled == batch \in {"shutdown", "cancelled"}

C26_EveryRunReturns ==
    (batch = "running") ~> (C26_Returned \/ C26_Cancelled)

\* the part that holds: a run returns, is cancelled, or is left by the
\* exception of a read that failed
C26_EveryRunEnds ==
    (batch = "running") ~>
        (C26_Returned \/ C26_Cancelled \/ batch \in {"raising", "raised"})

\* the part that holds: while a worker is parsing, the steps of the other
\* coroutines stay enabled
C26_ParseBlocksNoCoroutine ==
    (batch = "running" /\ Parsing # {}) =>
        \A g \in dir :
            /\ task[g].pc = "exists" => ENABLED ExistsCheck(g)
            /\ task[g].pc = "load" => ENABLED LoadDocument(g)
            /\ task[g].pc = "parsed" => ENABLED Resume(g)
            /\ task[g].pc = "save_open" => ENABLED SaveOpen(g)
            /\ task[g].pc = "save_write" => ENABLED SaveWrite(g)

====
